---- MODULE Spec2Model ----
(***************************************************************************)
(* A model of melwalletd's wallet store (src/src/database.rs): the SQLite  *)
(* tables, commit_sent, get_coin_mapping, the phases of network_sync, and   *)
(* the transaction preparer with its fee search; and of the daemon's        *)
(* secrets and signers (src/src/state.rs, secrets.rs, signer.rs).           *)
(***************************************************************************)
EXTENDS Integers, Sequences, FiniteSets, TLC

VARIABLES
    db,       \* the SQLite tables of the store
    chain,    \* the node: the sequence of mined blocks (each a set of txhashes)
    sync,     \* the local state of the (single) running network_sync
    last,     \* the outcome of the last store operation that returned
    prep,     \* the outcome of the last prepare call
    app,      \* the daemon: wallets, stored secrets, unlocked signers, caches
    pool,     \* the connection pool: the idle handles and who holds the others
    wal,      \* the open SQL write transactions and the holder of the write lock
    net       \* the submissions to the node: send_tx handlers and retransmit tasks

vars == <<db, chain, sync, last, prep, app, pool, wal, net>>

-----------------------------------------------------------------------------
(* Bounds of the model *)

\* the node never mines beyond this height
MaxHeight == 3

\* the same, while the store is followed statement by statement
SqlMaxHeight == 2

\* the same, under fair repetition of network_sync
LiveMaxHeight == 2

-----------------------------------------------------------------------------
(* Generic helpers *)

Put(f, k, v) == [x \in (DOMAIN f) \cup {k} |-> IF x = k THEN v ELSE f[x]]

Drop(f, S) == [x \in (DOMAIN f) \ S |-> f[x]]

EmptyTable == [x \in {} |-> 0]

Range(s) == {s[i] : i \in DOMAIN s}

-----------------------------------------------------------------------------
(* Entities: addresses, denominations, coins, transactions *)

Me == "me"

Other == "other"

Mel == [tag |-> "Mel", h |-> 0]

Sym == [tag |-> "Sym", h |-> 0]

NewCoin == [tag |-> "NewCoin", h |-> 0]

Custom(txhash) == [tag |-> "Custom", h |-> txhash]

CoinID(txhash, index) == <<txhash, index>>

CoinData(covhash, value, denom) == [covhash |-> covhash, value |-> value, denom |-> denom]

\* The transactions that exist in the model, by no-sigs hash.  Transaction 1
\* is sent by someone else and funds the wallet; 2 and 3 are the wallet's
\* and compete for coin (1,0), and 3 pays nothing back to the wallet; 4 is
\* a faucet transaction; 5 spends an output of 2 and mints a new
\* denomination; 6 is a swap that spends the coin 5 minted.  Coin (0,0) is a coin of someone else that exists from the
\* start of the chain.
TxCatalog ==
    [h \in 1..6 |->
        CASE h = 1 -> [kind |-> "Normal", inputs |-> <<CoinID(0, 0)>>,
                       outputs |-> <<CoinData(Me, 5, Mel), CoinData(Me, 3, Mel)>>]
          [] h = 2 -> [kind |-> "Normal", inputs |-> <<CoinID(1, 0)>>,
                       outputs |-> <<CoinData(Other, 2, Mel), CoinData(Me, 2, Mel)>>]
          [] h = 3 -> [kind |-> "Normal", inputs |-> <<CoinID(1, 1), CoinID(1, 0)>>,
                       outputs |-> <<CoinData(Other, 7, Mel)>>]
          [] h = 4 -> [kind |-> "Faucet", inputs |-> <<>>,
                       outputs |-> <<CoinData(Me, 4, Mel)>>]
          [] h = 5 -> [kind |-> "Normal", inputs |-> <<CoinID(2, 1)>>,
                       outputs |-> <<CoinData(Me, 1, NewCoin), CoinData(Other, 1, Mel)>>]
          [] h = 6 -> [kind |-> "Swap", inputs |-> <<CoinID(5, 0)>>,
                       outputs |-> <<CoinData(Me, 1, Mel)>>]]

TxHashes == DOMAIN TxCatalog

\* Transaction::output_coinid(i): outputs are numbered from 0
OutputCoinIDs(txhash) ==
    {CoinID(txhash, i - 1) : i \in DOMAIN TxCatalog[txhash].outputs}

\* the stored denomination of an output: NewCoin becomes Custom(txhash)
StoredDenom(txhash, output) ==
    IF output.denom = NewCoin THEN Custom(txhash) ELSE output.denom

StoredCoinData(coinid) ==
    LET out == TxCatalog[coinid[1]].outputs[coinid[2] + 1]
    IN  CoinData(out.covhash, out.value, StoredDenom(coinid[1], out))

-----------------------------------------------------------------------------
(* The node: a chain of blocks *)

Height == Len(chain)

MinedUpTo(k) == UNION {chain[i] : i \in 1..k}

SpentUpTo(k) == UNION {Range(TxCatalog[t].inputs) : t \in MinedUpTo(k)}

\* the coin of someone else that the chain starts with
GenesisCoins == {CoinID(0, 0)}

CreatedUpTo(k) == GenesisCoins \cup UNION {OutputCoinIDs(t) : t \in MinedUpTo(k)}

\* the unspent coins of the whole chain at height k
ChainCoins(k) == CreatedUpTo(k) \ SpentUpTo(k)

\* the block in which a transaction was mined
MinedAt(t) == CHOOSE i \in 1..Height : t \in chain[i]

\* ValClientSnapshot::get_coin at height k
NodeGetCoin(k, coinid) ==
    IF coinid \in ChainCoins(k)
    THEN [some |-> TRUE, height |-> MinedAt(coinid[1]), coin_data |-> StoredCoinData(coinid)]
    ELSE [some |-> FALSE, height |-> 0, coin_data |-> CoinData(Other, 0, Mel)]

\* get_some_coins(height, covhash): the coins of one address at height k
NodeCoinList(k, covhash) ==
    {c \in ChainCoins(k) \ GenesisCoins : StoredCoinData(c).covhash = covhash}

\* a transaction the node accepts in the next block; a faucet transaction
\* carries random data made by send_faucet, so it exists nowhere before the
\* wallet has committed it
Mineable(t) ==
    LET tx == TxCatalog[t]
    IN  /\ t \notin MinedUpTo(Height)
        /\ \/ tx.kind = "Faucet" /\ t \in db.transactions
           \/ /\ Len(tx.inputs) > 0
              /\ Cardinality(Range(tx.inputs)) = Len(tx.inputs)
              /\ Range(tx.inputs) \subseteq ChainCoins(Height)

-----------------------------------------------------------------------------
(* The store: tables and queries *)

EmptyDb ==
    [transactions       |-> {},
     coins              |-> EmptyTable,
     coin_confirmations |-> EmptyTable,
     pending_coins      |-> EmptyTable,
     spends             |-> EmptyTable,
     pending            |-> EmptyTable,
     wallet_names       |-> EmptyTable]

\* Wallet::is_pending
is_pending(d, txhash) == txhash \in DOMAIN d.pending

\* exists (select ... from coin_confirmations where coinid = coins.coinid)
HasConfirmation(d, c) == c \in DOMAIN d.coin_confirmations

\* exists (select ... from pending_coins where coinid = coins.coinid)
HasPendingCoin(d, c) == c \in DOMAIN d.pending_coins

\* a mutant: a spends row is overlooked while its spender is pending
HasSpendUnlessPending(d, c) ==
    /\ c \in DOMAIN d.spends
    /\ d.spends[c] \notin DOMAIN d.pending

\* exists (select txhash from spends where spends.coinid = coins.coinid)
HasSpend(d, c) == c \in DOMAIN d.spends

\* a mutant: the inner "not exists ... pending" is dropped
HasSettledSpendIgnoringPending(d, c) == c \in DOMAIN d.spends

\* exists (select txhash from spends where spends.coinid = coins.coinid
\*         and not exists (select txhash from pending where spends.txhash = pending.txhash))
HasSettledSpend(d, c) ==
    /\ c \in DOMAIN d.spends
    /\ d.spends[c] \notin DOMAIN d.pending

\* Wallet::get_coin_mapping: the four SQL statements
get_coin_mapping(d, covhash, confirmed, ignore_pending) ==
    CASE confirmed /\ ignore_pending ->
            {c \in DOMAIN d.coins :
                /\ d.coins[c].covhash = covhash
                /\ HasConfirmation(d, c)
                /\ ~HasSettledSpend(d, c)}
      [] confirmed /\ ~ignore_pending ->
            {c \in DOMAIN d.coins :
                /\ d.coins[c].covhash = covhash
                /\ HasConfirmation(d, c)
                /\ ~HasSpend(d, c)}
      [] ~confirmed /\ ignore_pending ->
            {c \in DOMAIN d.coins :
                /\ d.coins[c].covhash = covhash
                /\ (HasConfirmation(d, c) \/ HasPendingCoin(d, c))
                /\ ~HasSettledSpend(d, c)}
      [] ~confirmed /\ ~ignore_pending ->
            {c \in DOMAIN d.coins :
                /\ d.coins[c].covhash = covhash
                /\ (HasConfirmation(d, c) \/ HasPendingCoin(d, c))
                /\ ~HasSpend(d, c)}

\* Wallet::get_coin_confirmation: a coins row joined with its confirmation
get_coin_confirmation(d, c) ==
    IF c \in DOMAIN d.coins /\ c \in DOMAIN d.coin_confirmations
    THEN [some |-> TRUE, height |-> d.coin_confirmations[c], coin_data |-> d.coins[c]]
    ELSE [some |-> FALSE, height |-> 0, coin_data |-> CoinData(Other, 0, Mel)]

\* the row of a table named sync_heights for one address: Database::open
\* creates no such table and no statement writes one, so there is none
sync_heights(d, covhash) ==
    IF "sync_heights" \in DOMAIN d /\ covhash \in DOMAIN d["sync_heights"]
    THEN [some |-> TRUE, height |-> d["sync_heights"][covhash]]
    ELSE [some |-> FALSE, height |-> 0]

\* CoinID::proposer_reward(height): index 0 of a pseudo transaction hash
\* derived from the height, apart from every real transaction hash
proposer_reward(height) == CoinID(0 - (height + 1), 0)

\* select coins.coinid, height from coins left join coin_confirmations
\* ... where covhash = $1: the height of a row, null without confirmation
RowHeight(d, c) ==
    IF c \in DOMAIN d.coin_confirmations
    THEN [some |-> TRUE, height |-> d.coin_confirmations[c]]
    ELSE [some |-> FALSE, height |-> 0]

\* the rows get_transaction_history does not skip
HistoryRows(d, covhash) ==
    {c \in DOMAIN d.coins :
        /\ d.coins[c].covhash = covhash
        /\ ~(RowHeight(d, c).some /\ c = proposer_reward(RowHeight(d, c).height))}

\* toret.insert(coinid.txhash, height): a later row of the same transaction
\* replaces an earlier one, and the statement fixes no row order, so a
\* transaction may end with the height of any of its rows
HistoryHeights(d, covhash, txhash) ==
    {RowHeight(d, c) : c \in {x \in HistoryRows(d, covhash) : x[1] = txhash}}

\* the maps toret may be when the rows are exhausted
HistoryMaps(d, covhash) ==
    LET rows == HistoryRows(d, covhash)
        txs  == {c[1] : c \in rows}
    IN  {m \in [txs -> {RowHeight(d, c) : c \in rows}] :
            \A t \in txs : m[t] \in HistoryHeights(d, covhash, t)}

\* a mutant: None is greater than every Some
HeightKeyNoneLast(h) == IF h.some THEN h.height ELSE 1000000

\* the order of Option<BlockHeight>: None is less than every Some
HeightKey(h) == IF h.some THEN h.height + 1 ELSE 0

\* Wallet::get_transaction_history: the lists it may return, the entries of
\* the map in HashMap order followed by sort_unstable_by_key(|x| x.1)
get_transaction_history(d, covhash) ==
    UNION { LET n == Cardinality(DOMAIN m)
            IN  { [i \in 1..n |-> <<s[i], m[s[i]]>>] :
                    s \in {x \in [1..n -> DOMAIN m] :
                              /\ \A i, j \in 1..n : i # j => x[i] # x[j]
                              /\ \A i, j \in 1..n :
                                    i < j => HeightKey(m[x[i]]) <= HeightKey(m[x[j]])} }
          : m \in HistoryMaps(d, covhash) }

\* a mutant: a cached transaction counts as confirmed at height 0
TxConfirmedHeightCached(d, txhash) == [some |-> TRUE, height |-> 0]

\* get_tx: confirmed_height is the height of the last output, in index
\* order, that get_coin_confirmation finds
TxConfirmedHeight(d, txhash) ==
    LET found == {i \in DOMAIN TxCatalog[txhash].outputs :
                     get_coin_confirmation(d, CoinID(txhash, i - 1)).some}
    IN  IF found = {} THEN [some |-> FALSE, height |-> 0]
        ELSE LET i == CHOOSE x \in found : \A y \in found : y <= x
             IN  [some |-> TRUE,
                  height |-> get_coin_confirmation(d, CoinID(txhash, i - 1)).height]

\* MelwalletdRpcImpl::get_tx, the transaction status
get_tx(d, txhash) ==
    IF txhash \notin d.transactions
    THEN [ok |-> FALSE, err |-> "NotFound", confirmed_height |-> [some |-> FALSE, height |-> 0]]
    ELSE LET confirmed_height == TxConfirmedHeight(d, txhash)
         IN  IF ~confirmed_height.some /\ ~is_pending(d, txhash)
             THEN [ok |-> FALSE, err |-> "Lost", confirmed_height |-> confirmed_height]
             ELSE [ok |-> TRUE, err |-> "none", confirmed_height |-> confirmed_height]

\* MelwalletdRpcImpl::dump_coins
dump_coins(d) == get_coin_mapping(d, Me, TRUE, FALSE)

-----------------------------------------------------------------------------
(* commit_sent *)

\* a mutant: every insert is "on conflict do nothing"
InsertStrictIgnoringConflict(d, table, k, v) ==
    IF k \in DOMAIN d[table]
    THEN [ok |-> TRUE, db |-> d]
    ELSE [ok |-> TRUE, db |-> [d EXCEPT ![table] = Put(@, k, v)]]

\* "insert into T values (k, v)": fails on a key conflict
InsertStrict(d, table, k, v) ==
    IF k \in DOMAIN d[table]
    THEN [ok |-> FALSE, db |-> d]
    ELSE [ok |-> TRUE, db |-> [d EXCEPT ![table] = Put(@, k, v)]]

\* "insert into T values (k, v) on conflict do nothing"
InsertIgnore(d, table, k, v) ==
    IF k \in DOMAIN d[table] THEN d ELSE [d EXCEPT ![table] = Put(@, k, v)]

\* a mutant: the inputs are not looked up
InputsAvailableUnchecked(d, tx) == TRUE

\* ensure that every input is available
InputsAvailable(d, tx) ==
    \A i \in DOMAIN tx.inputs : tx.inputs[i] \in DOMAIN d.coin_confirmations

\* add the transaction to the cache
CacheTransaction(d, txhash) == [d EXCEPT !.transactions = @ \cup {txhash}]

\* spend everything: one strict insert per input, stopping at the first conflict
RECURSIVE SpendInputs(_, _, _, _)
SpendInputs(d, txhash, inputs, i) ==
    IF i > Len(inputs) THEN [ok |-> TRUE, db |-> d]
    ELSE LET r == InsertStrict(d, "spends", inputs[i], txhash)
         IN  IF r.ok THEN SpendInputs(r.db, txhash, inputs, i + 1) ELSE r

\* the outputs of a Normal transaction become coins and pending coins
RECURSIVE AddOutputs(_, _, _, _)
AddOutputs(d, txhash, outputs, i) ==
    IF i > Len(outputs) THEN [ok |-> TRUE, db |-> d]
    ELSE LET coinid == CoinID(txhash, i - 1)
             d1 == InsertIgnore(d, "coins", coinid,
                                CoinData(outputs[i].covhash, outputs[i].value,
                                         StoredDenom(txhash, outputs[i])))
             r  == InsertStrict(d1, "pending_coins", coinid, txhash)
         IN  IF r.ok THEN AddOutputs(r.db, txhash, outputs, i + 1) ELSE r

\* a mutant: the outputs are never recorded
OutputsStepSkipped(d, txhash, tx) == [ok |-> TRUE, db |-> d]

\* a mutant: the outputs are recorded whatever the kind
OutputsStepAnyKind(d, txhash, tx) == AddOutputs(d, txhash, tx.outputs, 1)

\* ONLY do this if this is a NORMAL transaction
OutputsStep(d, txhash, tx) ==
    IF tx.kind = "Normal" THEN AddOutputs(d, txhash, tx.outputs, 1)
    ELSE [ok |-> TRUE, db |-> d]

\* the first writes of commit_sent: the cache row and the spends rows
CommitSentSpend(d, txhash) ==
    SpendInputs(CacheTransaction(d, txhash), txhash, TxCatalog[txhash].inputs, 1)

\* the last writes of commit_sent: the outputs and the pending row
CommitSentAdd(d, txhash, expires) ==
    LET r3 == OutputsStep(d, txhash, TxCatalog[txhash])
    IN  IF ~r3.ok THEN r3
        ELSE InsertStrict(r3.db, "pending", txhash, expires)

\* the statements of commit_sent inside its SQL transaction: the working
\* state when it stops and whether it reached the commit
CommitSentBody(d, txhash, expires) ==
    IF ~InputsAvailable(d, TxCatalog[txhash]) THEN [ok |-> FALSE, db |-> d]
    ELSE LET r2 == CommitSentSpend(d, txhash)
         IN  IF ~r2.ok THEN r2
             ELSE CommitSentAdd(r2.db, txhash, expires)

\* a mutant: the statements executed before an error stay written
EndTransactionKeepPartial(before, r) == r

\* conn.transaction() ... conn.commit(): dropped without commit, the SQL
\* transaction rolls back
EndTransaction(before, r) == IF r.ok THEN r ELSE [ok |-> FALSE, db |-> before]

commit_sent(d, txhash, expires) ==
    EndTransaction(d, CommitSentBody(d, txhash, expires))

-----------------------------------------------------------------------------
(* network_sync *)

IdleSync ==
    [pc            |-> "idle",
     tip           |-> 0,
     pending_count |-> 0,
     expired0      |-> {},
     coin_list     |-> EmptyTable,
     new_spenders  |-> {}]

\* a mutant: the early return forgets the pending count
CanReturnEarlyIgnoringPending(existing_len, remote_coin_count, pending_count) ==
    existing_len = remote_coin_count

\* existing_coins.len() == remote_coin_count && pending_count == 0
\* (the third conjunct, fastrand::f64() < 0.95, is the caller's choice)
CanReturnEarly(existing_len, remote_coin_count, pending_count) ==
    /\ existing_len = remote_coin_count
    /\ pending_count = 0

\* a mutant: the full comparison is made only when the early return cannot be
MayCompareOnlyWhenChanged(existing_len, remote_coin_count, pending_count) ==
    ~CanReturnEarly(existing_len, remote_coin_count, pending_count)

\* the early return is not taken when fastrand::f64() < 0.95 fails, which
\* can happen whatever the counts: occasionally do a full sync
MayCompare(existing_len, remote_coin_count, pending_count) == TRUE

\* reconstruct the coin list: a coin the store knows as confirmed keeps the
\* store's data, any other coin is fetched from the node
ResolveCoinList(d, tip, remote_coin_list) ==
    [c \in remote_coin_list |->
        LET known == get_coin_confirmation(d, c)
        IN  IF known.some THEN known ELSE NodeGetCoin(tip, c)]

\* binary search for the first block in which this coin was gone
RECURSIVE FirstGoneHeight(_, _, _)
FirstGoneHeight(coinid, left, right) ==
    IF left < right
    THEN LET median == (left + right) \div 2
         IN  IF NodeGetCoin(median, coinid).some
             THEN FirstGoneHeight(coinid, median + 1, right)
             ELSE FirstGoneHeight(coinid, left, median)
    ELSE left

\* the transactions of a block that spend a coin
SpendersIn(block, coinid) ==
    {t \in chain[block] : coinid \in Range(TxCatalog[t].inputs)}

\* CoinID order of the BTreeMap: by txhash, then by index
CoinLess(a, b) == a[1] < b[1] \/ (a[1] = b[1] /\ a[2] < b[2])

MinCoin(S) == CHOOSE c \in S : \A o \in S \ {c} : CoinLess(c, o)

\* We take care of all disappearing coins: walk them in order, skip the
\* inputs of a spender already found; panic when no spender is in the block
RECURSIVE FindSpenders(_, _, _, _, _)
FindSpenders(d, tip, todo, skip, found) ==
    IF todo = {} THEN [ok |-> TRUE, spenders |-> found]
    ELSE LET c    == MinCoin(todo)
             rest == todo \ {c}
             cdh  == get_coin_confirmation(d, c)
         IN  IF c \in skip \/ ~cdh.some
             THEN FindSpenders(d, tip, rest, skip, found)
             ELSE LET spend_block == FirstGoneHeight(c, cdh.height, tip)
                      who == IF spend_block \in 1..Height
                             THEN SpendersIn(spend_block, c) ELSE {}
                  IN  IF who = {} THEN [ok |-> FALSE, spenders |-> found]
                      ELSE LET spender == CHOOSE t \in who : TRUE
                           IN  FindSpenders(d, tip, rest,
                                            skip \cup Range(TxCatalog[spender].inputs),
                                            found \cup {spender})

\* insert into coins / coin_confirmations ... on conflict do nothing
RECURSIVE InsertCoinList(_, _, _)
InsertCoinList(d, coin_list, todo) ==
    IF todo = {} THEN d
    ELSE LET c  == MinCoin(todo)
             d1 == InsertIgnore(d, "coins", c, coin_list[c].coin_data)
             d2 == InsertIgnore(d1, "coin_confirmations", c, coin_list[c].height)
         IN  InsertCoinList(d2, coin_list, todo \ {c})

\* a mutant: the spender found by a sync replaces the recorded one
InsertSpenderInputsReplacing(d, txhash, inputs, i) ==
    IF i > Len(inputs) THEN d
    ELSE [d EXCEPT !.spends = [c \in (DOMAIN @) \cup Range(inputs) |->
                                  IF c \in Range(inputs) THEN txhash ELSE @[c]]]

\* insert into spends values (input, txhash) on conflict do nothing
RECURSIVE InsertSpenderInputs(_, _, _, _)
InsertSpenderInputs(d, txhash, inputs, i) ==
    IF i > Len(inputs) THEN d
    ELSE InsertSpenderInputs(InsertIgnore(d, "spends", inputs[i], txhash),
                             txhash, inputs, i + 1)

RECURSIVE InsertSpenders(_, _)
InsertSpenders(d, spenders) ==
    IF spenders = {} THEN d
    ELSE LET t == CHOOSE x \in spenders : \A y \in spenders : x <= y
         IN  InsertSpenders(InsertSpenderInputs(d, t, TxCatalog[t].inputs, 1),
                            spenders \ {t})

\* a mutant: a confirmed transaction keeps its pending row
DeleteConfirmedPendingNever(d, confirmed_txhashes) == d

\* remove all pendings that have confirmation
DeleteConfirmedPending(d, confirmed_txhashes) ==
    [d EXCEPT !.pending = Drop(@, confirmed_txhashes)]

\* a mutant: the spends of expired pending transactions are kept
DeleteExpiredSpendsNever(d, tip) == d

\* delete from spends where exists (select expires from pending
\*   where expires < tip and txhash = spends.txhash)
DeleteExpiredSpends(d, tip) ==
    [d EXCEPT !.spends =
        Drop(@, {c \in DOMAIN d.spends :
                    /\ d.spends[c] \in DOMAIN d.pending
                    /\ d.pending[d.spends[c]] < tip})]

\* a mutant: a transaction whose expiry is the tip is removed as well
DeleteExpiredPendingAtTip(d, tip) ==
    [d EXCEPT !.pending = Drop(@, {t \in DOMAIN d.pending : d.pending[t] <= tip})]

\* delete from pending where expires < tip
DeleteExpiredPending(d, tip) ==
    [d EXCEPT !.pending = Drop(@, {t \in DOMAIN d.pending : d.pending[t] < tip})]

\* a mutant: the pending coins of removed transactions are kept
DeleteOrphanPendingCoinsNever(d) == d

\* delete from pending_coins where not exists (select expires from pending
\*   where pending.txhash = pending_coins.txhash)
DeleteOrphanPendingCoins(d) ==
    [d EXCEPT !.pending_coins =
        Drop(@, {c \in DOMAIN d.pending_coins :
                    d.pending_coins[c] \notin DOMAIN d.pending})]

\* the inserts of the write transaction of network_sync
SyncWriteInserts(d, coin_list, new_spenders) ==
    InsertSpenders(InsertCoinList(d, coin_list, DOMAIN coin_list), new_spenders)

\* a mutant: the coins rows of the swept pending coins are deleted with them
SyncWriteDeletesSweepingCoins(d, tip, coin_list) ==
    LET d3 == DeleteConfirmedPending(d, {c[1] : c \in DOMAIN coin_list})
        d4 == DeleteExpiredSpends(d3, tip)
        d5 == DeleteExpiredPending(d4, tip)
        d6 == DeleteOrphanPendingCoins(d5)
    IN  [d6 EXCEPT !.coins = Drop(@, (DOMAIN d5.pending_coins \ DOMAIN d6.pending_coins)
                                        \ DOMAIN d6.coin_confirmations)]

\* the deletes of the write transaction of network_sync
SyncWriteDeletes(d, tip, coin_list) ==
    LET d3 == DeleteConfirmedPending(d, {c[1] : c \in DOMAIN coin_list})
        d4 == DeleteExpiredSpends(d3, tip)
        d5 == DeleteExpiredPending(d4, tip)
    IN  DeleteOrphanPendingCoins(d5)

\* the write transaction of network_sync
SyncWriteTxn(d, tip, coin_list, new_spenders) ==
    SyncWriteDeletes(SyncWriteInserts(d, coin_list, new_spenders), tip, coin_list)

-----------------------------------------------------------------------------
(* Keys, secrets and signers *)

\* Ed25519SK::to_public
to_public(sk) == <<"pk", sk>>

\* Covenant::std_ed25519_pk_new(pk)
std_ed25519_pk_new(pk) == <<"std_ed25519", pk>>

\* Covenant::hash
CovenantHash(covenant) == <<"hash", covenant>>

\* a mutant: the insert replaces the row of a name that is already there
create_wallet_upsert(d, name, covenant) ==
    [ok |-> TRUE,
     db |-> [d EXCEPT !.wallet_names =
                Put(@, name, [covhash |-> CovenantHash(covenant), covenant |-> covenant])]]

\* Database::create_wallet: "insert into wallet_names values (name, covhash,
\* covenant)" with covhash = covenant.hash(); name is the primary key
create_wallet(d, name, covenant) ==
    InsertStrict(d, "wallet_names", name,
                 [covhash |-> CovenantHash(covenant), covenant |-> covenant])

\* Database::restore_wallet_dump: the dump's coins and their heights are
\* inserted "on conflict do nothing"; the name is inserted, and on a conflict
\* only the covhash of its row is replaced
restore_wallet_dump(d, name, dump) ==
    LET new  == DOMAIN dump.unspent_coins
        hash == CovenantHash(dump.my_covenant)
    IN  [d EXCEPT
            !.coins = [c \in (DOMAIN @) \cup new |->
                          IF c \in DOMAIN @ THEN @[c] ELSE dump.unspent_coins[c].coin_data],
            !.coin_confirmations = [c \in (DOMAIN @) \cup new |->
                          IF c \in DOMAIN @ THEN @[c] ELSE dump.unspent_coins[c].height],
            !.wallet_names =
                IF name \in DOMAIN @
                THEN [@ EXCEPT ![name].covhash = hash]
                ELSE Put(@, name, [covhash |-> hash, covenant |-> dump.my_covenant])]

\* Ed25519SK::sign: an Ed25519 signature is a function of key and message
sign(sk, msg) == <<"sig", to_public(sk), msg>>

\* the passwords of the model, as numbers
PasswordNumber(pwd) == IF pwd = "hello world" THEN 0 ELSE 1

\* argon2::hash_raw(pwd, salt, cfg): the encryption key, different for
\* different passwords or salts
argon2_hash_raw(pwd, salt) == 1 + 2 * PasswordNumber(pwd) + salt

\* aead.seal_to: the plaintext under the key stream of the key, followed by
\* the authentication tag of key and body
seal_to(plaintext, encryption_key) ==
    LET body == (plaintext + 3 * encryption_key) % 16
    IN  [body |-> body, tag |-> <<"poly1305", encryption_key, body>>]

\* a mutant: the authentication tag is not verified
open_to_unverified(ciphertext, encryption_key) ==
    [some |-> TRUE, sk |-> (ciphertext.body + 16 * 3 - 3 * encryption_key) % 16]

\* aead.open_to: fails unless the tag is the tag of this key and body
open_to(ciphertext, encryption_key) ==
    IF ciphertext.tag = <<"poly1305", encryption_key, ciphertext.body>>
    THEN [some |-> TRUE, sk |-> (ciphertext.body + 16 * 3 - 3 * encryption_key) % 16]
    ELSE [some |-> FALSE, sk |-> 0]

\* EncryptedSK::new(sk, pwd), with the salt getrandom gave
EncryptedSK_new(sk, pwd, salt) ==
    [argon2id_salt |-> salt,
     cp20p1350_ciphertext |-> seal_to(sk, argon2_hash_raw(pwd, salt))]

\* EncryptedSK::decrypt(pwd)
decrypt(enc, pwd) ==
    open_to(enc.cp20p1350_ciphertext, argon2_hash_raw(pwd, enc.argon2id_salt))

\* PersistentSecret
Plaintext(sk) == [kind |-> "Plaintext", sk |-> sk, enc |-> EncryptedSK_new(0, "hello world", 0)]

PasswordEncrypted(enc) == [kind |-> "PasswordEncrypted", sk |-> 0, enc |-> enc]

\* no password given: Option<String> None
NoPassword == "(none)"

\* AppState::new: no wallet, no secret, nothing unlocked, empty caches; with
\* the history the properties refer to
EmptyApp ==
    [multi            |-> EmptyTable,
     secrets          |-> EmptyTable,
     unlocked_signers |-> EmptyTable,
     CACHE            |-> [thread \in {1, 2} |-> EmptyTable],
     made             |-> EmptyTable,
     phase            |-> EmptyTable,
     first            |-> EmptyTable,
     signed           |-> EmptyTable,
     signing          |-> [called |-> FALSE, key |-> 0, input_idx |-> 0, thread |-> 0,
                           tx |-> [body |-> 0, sigs |-> <<>>]],
     result           |-> [op |-> "none", name |-> "", ok |-> TRUE, pwd |-> NoPassword]]

\* AppState::get_signer
get_signer(a, name) ==
    IF name \in DOMAIN a.unlocked_signers
    THEN [some |-> TRUE, sk |-> a.unlocked_signers[name]]
    ELSE [some |-> FALSE, sk |-> 0]

\* SecretStore::load
load(a, name) ==
    IF name \in DOMAIN a.secrets
    THEN [some |-> TRUE, secret |-> a.secrets[name]]
    ELSE [some |-> FALSE, secret |-> Plaintext(0)]

\* a mutant: an unlock that fails to decrypt locks the wallet
unlock_locking_on_failure(a, name, pwd) ==
    LET enc == load(a, name)
    IN  IF ~enc.some THEN [ok |-> FALSE, app |-> a]
        ELSE IF enc.secret.kind = "Plaintext"
        THEN [ok |-> TRUE,
              app |-> [a EXCEPT !.unlocked_signers = Put(@, name, enc.secret.sk)]]
        ELSE IF pwd = NoPassword THEN [ok |-> FALSE, app |-> a]
        ELSE LET decrypted == decrypt(enc.secret.enc, pwd)
             IN  IF ~decrypted.some
                 THEN [ok |-> FALSE,
                       app |-> [a EXCEPT !.unlocked_signers = Drop(@, {name})]]
                 ELSE [ok |-> TRUE,
                       app |-> [a EXCEPT !.unlocked_signers = Put(@, name, decrypted.sk)]]

\* AppState::unlock
unlock(a, name, pwd) ==
    LET enc == load(a, name)
    IN  IF ~enc.some THEN [ok |-> FALSE, app |-> a]
        ELSE IF enc.secret.kind = "Plaintext"
        THEN [ok |-> TRUE,
              app |-> [a EXCEPT !.unlocked_signers = Put(@, name, enc.secret.sk)]]
        ELSE IF pwd = NoPassword THEN [ok |-> FALSE, app |-> a]
        ELSE LET decrypted == decrypt(enc.secret.enc, pwd)
             IN  IF ~decrypted.some THEN [ok |-> FALSE, app |-> a]
                 ELSE [ok |-> TRUE,
                       app |-> [a EXCEPT !.unlocked_signers = Put(@, name, decrypted.sk)]]

\* a mutant: lock leaves the signer installed
lock_forgets(a, name) == a

\* AppState::lock
lock(a, name) == [a EXCEPT !.unlocked_signers = Drop(@, {name})]

\* a mutant: an existing wallet of the name is silently overwritten
app_create_wallet_overwrite(a, name, key, pwd, salt) ==
    [ok |-> TRUE,
     app |-> [a EXCEPT
                 !.multi = Put(@, name, std_ed25519_pk_new(to_public(key))),
                 !.secrets = Put(@, name,
                                 IF pwd = NoPassword THEN Plaintext(key)
                                 ELSE PasswordEncrypted(EncryptedSK_new(key, pwd, salt)))]]

\* AppState::create_wallet(name, network, key, pwd)
app_create_wallet(a, name, key, pwd, salt) ==
    IF name \in DOMAIN a.multi THEN [ok |-> FALSE, app |-> a]
    ELSE [ok |-> TRUE,
          app |-> [a EXCEPT
                      !.multi = Put(@, name, std_ed25519_pk_new(to_public(key))),
                      !.secrets = Put(@, name,
                                      IF pwd = NoPassword THEN Plaintext(key)
                                      ELSE PasswordEncrypted(EncryptedSK_new(key, pwd, salt)))]]

\* Transaction::hash_nosigs: the hash of everything but the signatures
hash_nosigs(txn) == <<"txhash", txn.body>>

\* impl Signer for Ed25519SK: sign_tx(txn, input_idx), with the CACHE of the
\* thread it runs on: the signature is the cached one for the no-sigs hash
\* if there is one, else self.sign of the hash, which is then cached; the
\* earlier signature slots are filled with empty signatures
sign_tx(sk, txn, input_idx, cache) ==
    LET h == hash_nosigs(txn)
        signature == IF h \in DOMAIN cache THEN cache[h] ELSE sign(sk, h)
        n == IF Len(txn.sigs) <= input_idx THEN input_idx + 1 ELSE Len(txn.sigs)
    IN  [txn   |-> [txn EXCEPT !.sigs =
                        [i \in 1..n |->
                            IF i = input_idx + 1 THEN signature
                            ELSE IF i <= Len(txn.sigs) THEN txn.sigs[i] ELSE <<>>]],
         cache |-> Put(cache, h, signature)]

-----------------------------------------------------------------------------
(* The connection pool *)

\* the capacity of the channel and the number of connections opened into
\* it; the program's is 64, the model's is scaled down so that a handful of
\* tasks can empty the pool
PoolCapacity == 2

\* the tasks that ask the pool for a connection
PoolTasks == 1..(PoolCapacity + 2)

RECURSIVE OpenConnections(_, _)
\* ConnPool::open: for _ in 0..capacity, open a connection and try_send it
OpenConnections(queue, n) ==
    IF n > PoolCapacity THEN queue
    ELSE OpenConnections(IF Len(queue) < PoolCapacity THEN Append(queue, n) ELSE queue,
                         n + 1)

\* the pool after ConnPool::open: every connection idle in the channel, no
\* task holding or waiting (blocked: the task found the channel empty when
\* it asked)
FullPool ==
    [channel |-> OpenConnections(<<>>, 1),
     tasks   |-> [t \in PoolTasks |-> [pc |-> "free", conn |-> 0, blocked |-> FALSE]]]

\* a mutant: the dropped handle does not go back to the channel
try_send_lost(channel, conn) == channel

\* Sender::try_send on the bounded channel: refused when the channel is full
try_send(channel, conn) ==
    IF Len(channel) < PoolCapacity THEN Append(channel, conn) ELSE channel

\* the connections checked out of the pool
HeldConnections(pl) == {pl.tasks[t].conn : t \in {x \in PoolTasks : pl.tasks[x].pc = "holding"}}

-----------------------------------------------------------------------------
(* SQL write transactions *)

\* the connections that run commit_sent at the same time
Callers == {"rpc1", "rpc2"}

\* a connection with no transaction open
NoTxn == [pc |-> "none", tx |-> 0, expires |-> 0, snap |-> EmptyDb]

\* no transaction open, nobody holds the write lock (writer: the connection
\* that holds it, a caller or "sync"; work: the uncommitted pages of the
\* writer, here the whole store as the writer sees it)
NoWal == [writer |-> "none", work |-> EmptyDb, txn |-> [w \in Callers |-> NoTxn]]

\* a mutant: a statement outside a transaction reads the writer's pages
ReadViewDirty(d, w) == IF w.writer = "none" THEN d ELSE w.work

\* what a statement on another connection reads under journal_mode=WAL: the
\* last committed state, whatever a writer has done and not committed
ReadView(d, w) == d

\* the first write of a deferred transaction takes the write lock: nobody
\* else holds it, and nothing was committed since the transaction's snapshot
CanWrite(w, snap, d) == w.writer = "none" /\ snap = d

\* a mutant: the writes made before the transaction was dropped stay
RollbackKeepingWork(d, work) == work

\* a Transaction dropped without commit rolls back: the committed state stays
Rollback(d, work) == d

-----------------------------------------------------------------------------
(* The state machine of the store *)

\* an expiry height that no tip of the model exceeds
FarExpiry == MaxHeight

\* the expiry heights commit_sent is called with: send_faucet passes a height
\* that never comes, any other transaction may also get an early expiry
ExpiriesFor(txhash) ==
    IF TxCatalog[txhash].kind = "Normal" THEN {1, FarExpiry} ELSE {FarExpiry}

NoOp ==
    [op |-> "none", tx |-> 0, expires |-> 0, ok |-> TRUE, wrote |-> FALSE,
     tip |-> 0, expired0 |-> {}, evicted |-> {}, confirmed |-> {}]

\* the record of an operation that returned: its arguments and result; the
\* effects of a failed operation are not recorded beyond its failure
\* (expired0: the transactions that were pending with an expiry below the
\* tip when a sync started; evicted: those a sync write removed from pending
\* for their expiry without having seen one of their coins confirmed;
\* confirmed: those a sync write removed from pending for a coin it saw)
Returned(op, tx, expires, ok, wrote, tip, expired0, evicted) ==
    IF ok
    THEN [op |-> op, tx |-> tx, expires |-> expires, ok |-> TRUE, wrote |-> wrote,
          tip |-> tip, expired0 |-> expired0, evicted |-> evicted, confirmed |-> {}]
    ELSE [op |-> op, tx |-> tx, expires |-> 0, ok |-> FALSE, wrote |-> FALSE,
          tip |-> 0, expired0 |-> {}, evicted |-> {}, confirmed |-> {}]

NoPrepare == [called |-> FALSE]

\* no send_tx handler is running, nothing was submitted to the node
NoSend == [pc |-> "idle", tx |-> 0, height |-> 0, answer |-> "none"]

\* (called, rows: the last retransmit_pending call and the rows it read;
\* tasks: the detached tasks that have not sent yet; resent: the last
\* submission a task made)
NoNet == [send |-> NoSend, accepted |-> {}, called |-> FALSE, rows |-> {},
          tasks |-> {}, resent |-> [tx |-> 0, ok |-> FALSE]]

Init ==
    /\ db = EmptyDb
    /\ chain = <<>>
    /\ sync = IdleSync
    /\ last = NoOp
    /\ prep = NoPrepare
    /\ app = EmptyApp
    /\ pool = FullPool
    /\ wal = NoWal
    /\ net = NoNet

\* the node mines a block: empty, or holding one acceptable transaction
NodeMine ==
    /\ Height < MaxHeight
    /\ \E block \in {{}} \cup {{t} : t \in {x \in TxHashes : Mineable(x)}} :
          chain' = Append(chain, block)
    /\ UNCHANGED <<db, sync, last, prep, app, pool, wal, net>>

\* Wallet::commit_sent(txn, timeout), one SQL transaction; send_faucet
\* commits a transaction it has just made, with fresh random data
CommitSent ==
    \E txhash \in TxHashes : \E expires \in ExpiriesFor(txhash) :
        LET r == commit_sent(db, txhash, expires)
        IN  /\ TxCatalog[txhash].kind = "Faucet" => txhash \notin db.transactions
            /\ db' = r.db
            /\ last' = Returned("commit_sent", txhash, expires, r.ok, r.ok, 0, {}, {})
            /\ UNCHANGED <<chain, sync, prep, app, pool, wal, net>>

\* network_sync starts on a snapshot of the tip: First find the pending count
SyncBegin ==
    /\ sync.pc = "idle"
    /\ sync' = [IdleSync EXCEPT
                    !.pc = "counted",
                    !.tip = Height,
                    !.pending_count = Cardinality(DOMAIN db.pending),
                    !.expired0 = {t \in DOMAIN db.pending : db.pending[t] < Height}]
    /\ UNCHANGED <<db, chain, last, prep, app, pool, wal, net>>

\* get the remote coin count and compare with the coins we already have;
\* return early when nothing seems to have changed, else reconstruct the
\* coin list and look for the spenders of the disappeared coins
SyncRead ==
    /\ sync.pc = "counted"
    /\ LET existing_coins == get_coin_mapping(db, Me, TRUE, FALSE)
           remote_coin_list == NodeCoinList(sync.tip, Me)
           coin_list == ResolveCoinList(db, sync.tip, remote_coin_list)
           gone == {c \in existing_coins : c \notin DOMAIN coin_list}
           r == FindSpenders(db, sync.tip, gone, {}, {})
       IN  \/ /\ CanReturnEarly(Cardinality(existing_coins),
                                Cardinality(remote_coin_list), sync.pending_count)
              /\ sync' = IdleSync
              /\ last' = Returned("sync", 0, 0, TRUE, FALSE, sync.tip, sync.expired0, {})
           \/ /\ MayCompare(Cardinality(existing_coins),
                            Cardinality(remote_coin_list), sync.pending_count)
              /\ r.ok
              /\ sync' = [sync EXCEPT !.pc = "collected",
                                      !.coin_list = coin_list,
                                      !.new_spenders = r.spenders]
              /\ last' = last
           \/ /\ ~r.ok
              /\ sync' = IdleSync
              /\ last' = Returned("sync", 0, 0, FALSE, FALSE, sync.tip, sync.expired0, {})
    /\ UNCHANGED <<db, chain, prep, app, pool, wal, net>>

\* the transactions the callers commit: the two that compete for coin (1,0)
SqlTxHashes == {t \in TxHashes : CoinID(1, 0) \in Range(TxCatalog[t].inputs)}

\* the step of SyncRead that goes on to the full comparison: the one taken
\* when the counts differ or something is pending, and now and then
\* (fastrand::f64() >= 0.95) when they do not
SyncReadFull == SyncRead /\ sync'.pc = "collected"

\* the record of a sync that committed its write on the store d
SyncWritten(d, s) ==
    [Returned("sync", 0, 0, TRUE, TRUE, s.tip, s.expired0,
              {t \in DOMAIN d.pending :
                  /\ d.pending[t] < s.tip
                  /\ t \notin {c[1] : c \in DOMAIN s.coin_list}})
        EXCEPT !.confirmed =
              {t \in DOMAIN d.pending : t \in {c[1] : c \in DOMAIN s.coin_list}}]

\* we insert the coins and spenders in one atomic transaction
SyncWrite ==
    /\ sync.pc = "collected"
    /\ db' = SyncWriteTxn(db, sync.tip, sync.coin_list, sync.new_spenders)
    /\ sync' = IdleSync
    /\ last' = SyncWritten(db, sync)
    /\ UNCHANGED <<chain, prep, app, pool, wal, net>>

\* a node request fails or the sync is cancelled before its write commits
SyncFail ==
    /\ sync.pc \in {"counted", "collected"}
    /\ sync' = IdleSync
    /\ last' = Returned("sync", 0, 0, FALSE, FALSE, sync.tip, sync.expired0, {})
    /\ UNCHANGED <<db, chain, prep, app, pool, wal, net>>

Next ==
    \/ NodeMine
    \/ CommitSent
    \/ SyncBegin
    \/ SyncRead
    \/ SyncWrite
    \/ SyncFail

Spec == Init /\ [][Next]_vars

\* the same under fair repetition of network_sync: a sync is started again
\* and again, the full comparison is taken again and again whenever it can
\* be, and a sync that has collected its lists is not failed for ever
LiveNodeMine == Height < LiveMaxHeight /\ NodeMine

\* the wallet commits one of the two transactions that compete for (1,0)
LiveCommitSent == CommitSent /\ last'.tx \in SqlTxHashes

NextLive ==
    \/ LiveNodeMine
    \/ LiveCommitSent
    \/ SyncBegin
    \/ SyncRead
    \/ SyncWrite
    \/ SyncFail

SpecLive ==
    /\ Init /\ [][NextLive]_vars
    /\ WF_vars(SyncBegin)
    /\ WF_vars(SyncRead)
    /\ SF_vars(SyncReadFull)
    /\ SF_vars(SyncWrite)

-----------------------------------------------------------------------------
(* prepare: candidate generation and fee search *)

\* the order of Denom in a BTreeMap: Mel, Sym, NewCoin, then Custom by hash
DenomRank(dn) ==
    CASE dn.tag = "Mel" -> 0
      [] dn.tag = "Sym" -> 1
      [] dn.tag = "NewCoin" -> 2
      [] OTHER -> 3 + dn.h

MinDenom(S) == CHOOSE dn \in S : \A o \in S : DenomRank(dn) <= DenomRank(o)

\* map.get(&denom).cloned().unwrap_or(CoinValue(0))
GetOrZero(map, dn) == IF dn \in DOMAIN map THEN map[dn] ELSE 0

\* the sum of the values of the coins of one denomination in a list
RECURSIVE SumOutputs(_, _, _)
SumOutputs(outputs, dn, i) ==
    IF i > Len(outputs) THEN 0
    ELSE (IF outputs[i].denom = dn THEN outputs[i].value ELSE 0)
            + SumOutputs(outputs, dn, i + 1)

\* Transaction::total_outputs: the outputs by denomination, with the fee
\* counted as Mel (so Mel is always a key)
total_outputs(outputs, fee) ==
    [dn \in {outputs[i].denom : i \in DOMAIN outputs} \cup {Mel} |->
        SumOutputs(outputs, dn, 1) + (IF dn = Mel THEN fee ELSE 0)]

\* first we add the "mandatory" inputs, in CoinID order
RECURSIVE AddMandatory(_, _, _, _)
AddMandatory(mandatory, todo, input_sum, inputs) ==
    IF todo = {} THEN [input_sum |-> input_sum, inputs |-> inputs]
    ELSE LET c  == MinCoin(todo)
             cd == mandatory[c].coin_data
         IN  AddMandatory(mandatory, todo \ {c},
                          Put(input_sum, cd.denom, GetOrZero(input_sum, cd.denom) + cd.value),
                          Append(inputs, c))

\* don't try to balance the nobalance stuff
WithoutDenoms(map, nobalance) == Drop(map, nobalance)

\* then we add other inputs until enough: walk the unspent coins in CoinID
\* order and take a coin while its denomination is still short
RECURSIVE SelectCoins(_, _, _, _, _)
SelectCoins(call, todo, output_sum, input_sum, inputs) ==
    IF todo = {} THEN [input_sum |-> input_sum, inputs |-> inputs]
    ELSE LET c    == MinCoin(todo)
             data == call.unspent_coins[c]
             existing_val == GetOrZero(input_sum, data.denom)
         IN  IF \/ c \in DOMAIN call.mandatory_inputs
                \/ data.denom \in call.nobalance
                \/ data.covhash # Me
             THEN SelectCoins(call, todo \ {c}, output_sum, input_sum, inputs)
             ELSE IF existing_val < GetOrZero(output_sum, data.denom)
                  THEN SelectCoins(call, todo \ {c}, output_sum,
                                   Put(input_sum, data.denom, existing_val + data.value),
                                   Append(inputs, c))
                  ELSE SelectCoins(call, todo \ {c}, output_sum, input_sum, inputs)

\* a mutant: no zero-valued change for Mel
ChangeForPositiveOnly(dn, difference) ==
    IF difference > 0
    THEN IF difference >= 2
         THEN LET first_half == difference \div 2
              IN  <<CoinData(Me, first_half, dn), CoinData(Me, difference - first_half, dn)>>
         ELSE <<CoinData(Me, difference, dn)>>
    ELSE <<>>

\* the change outputs of one denomination
ChangeFor(dn, difference) ==
    IF difference > 0 \/ dn = Mel
    THEN IF difference >= 2
         THEN LET first_half == difference \div 2
              IN  <<CoinData(Me, first_half, dn), CoinData(Me, difference - first_half, dn)>>
         ELSE <<CoinData(Me, difference, dn)>>
    ELSE <<>>

\* create change outputs, one denomination of output_sum after another;
\* stop at the first denomination whose inputs are short (checked_sub)
RECURSIVE MakeChange(_, _, _, _)
MakeChange(todo, output_sum, input_sum, change) ==
    IF todo = {} THEN [ok |-> TRUE, denom |-> Mel, change |-> change]
    ELSE LET dn == MinDenom(todo)
         IN  IF GetOrZero(input_sum, dn) < output_sum[dn]
             THEN [ok |-> FALSE, denom |-> dn, change |-> change]
             ELSE MakeChange(todo \ {dn}, output_sum, input_sum,
                             change \o ChangeFor(dn, GetOrZero(input_sum, dn) - output_sum[dn]))

\* if txn.inputs.len() > 5000: too many inputs
MaxInputs == 5000

\* Transaction::is_well_formed (themelio_structs): at most 255 inputs and
\* outputs (the value bounds are beyond the values of the model)
is_well_formed(tx) == Len(tx.inputs) <= 255 /\ Len(tx.outputs) <= 255

\* Transaction::weight (themelio_structs): the serialized length plus the
\* covenant weight, 1000 more per output and 1000 less per input
weight(tx) ==
    LET raw_length == 40 + 33 * Len(tx.inputs) + 60 * Len(tx.outputs) + 66 * tx.sigs
        penalised  == raw_length + 300 + 1000 * Len(tx.outputs)
        boost      == 1000 * Len(tx.inputs)
    IN  IF penalised > boost THEN penalised - boost ELSE 0

\* Transaction::base_fee(fee_multiplier, 0, ..): (weight * multiplier) >> 16
base_fee(fee_multiplier, tx) == (weight(tx) * fee_multiplier) \div 65536

NoTx == [kind |-> "Normal", inputs |-> <<>>, outputs |-> <<>>, fee |-> 0, sigs |-> 0]

Probe(dir, ok, err, denom, tx) ==
    [dir |-> dir, ok |-> ok, err |-> err, denom |-> denom, tx |-> tx]

\* a mutant: every signed candidate is classified High
ClassifyAlwaysHigh(fee_multiplier, signed_txn) ==
    Probe("High", TRUE, "none", Mel, signed_txn)

\* fee <= base_fee * 21 / 20: Direction::Low, else Direction::High
Classify(fee_multiplier, signed_txn) ==
    IF signed_txn.fee <= (base_fee(fee_multiplier, signed_txn) * 21) \div 20
    THEN Probe("Low", TRUE, "none", Mel, signed_txn)
    ELSE Probe("High", TRUE, "none", Mel, signed_txn)

\* the closure gen_transaction: the candidate for one trial fee
gen_transaction(call, fee) ==
    LET output_sum0 == total_outputs(call.outputs, fee)
        m == AddMandatory(call.mandatory_inputs, DOMAIN call.mandatory_inputs,
                          EmptyTable, <<>>)
        output_sum == WithoutDenoms(output_sum0, call.nobalance)
        sel == SelectCoins(call, DOMAIN call.unspent_coins, output_sum,
                           WithoutDenoms(m.input_sum, call.nobalance), m.inputs)
        ch == MakeChange(DOMAIN output_sum, output_sum, sel.input_sum, <<>>)
        txn == [kind |-> "Normal", inputs |-> sel.inputs,
                outputs |-> call.outputs \o ch.change, fee |-> fee, sigs |-> 0]
    IN  IF ~ch.ok THEN Probe("High", FALSE, "not enough money", ch.denom, NoTx)
        ELSE IF Len(txn.inputs) > MaxInputs
             THEN Probe("High", FALSE, "too many inputs", Mel, NoTx)
        ELSE IF ~is_well_formed(txn)
             THEN Probe("High", FALSE, "not well-formed", Mel, NoTx)
        ELSE IF ~call.sign_ok
             THEN Probe("Low", FALSE, "sign", Mel, NoTx)
        ELSE Classify(call.fee_multiplier, [txn EXCEPT !.sigs = Len(txn.inputs)])

\* a mutant: the search hands back the witness of its low side
RECURSIVE binary_search_low(_, _, _, _)
binary_search_low(call, low, high, witness) ==
    IF high <= low + 1 THEN witness
    ELSE LET mid == low + (high - low) \div 2
             r   == gen_transaction(call, mid)
         IN  IF r.dir = "Low"
             THEN binary_search_low(call, mid, high, r)
             ELSE binary_search_low(call, low, mid, witness)

\* binary_search::binary_search(low, high, f), of which prepare keeps the
\* witness of the high side: let (_, (_, val)) = ...
RECURSIVE binary_search(_, _, _, _)
binary_search(call, low, high, witness) ==
    IF high <= low + 1 THEN witness
    ELSE LET mid == low + (high - low) \div 2
             r   == gen_transaction(call, mid)
         IN  IF r.dir = "Low"
             THEN binary_search(call, mid, high, witness)
             ELSE binary_search(call, low, mid, r)

\* the sum of the Mel coins among the unspent coins
RECURSIVE MelTotal(_, _)
MelTotal(unspent_coins, todo) ==
    IF todo = {} THEN 0
    ELSE LET c == MinCoin(todo)
         IN  (IF unspent_coins[c].denom = Mel THEN unspent_coins[c].value ELSE 0)
                + MelTotal(unspent_coins, todo \ {c})

\* Wallet::prepare
prepare(d, inputs, outputs, fee_multiplier, sign_ok, nobalance) ==
    IF \E c \in inputs : ~get_coin_confirmation(d, c).some
    THEN Probe("High", FALSE, "mandatory input not found", Mel, NoTx)
    ELSE LET unspent == get_coin_mapping(d, Me, TRUE, FALSE)
             call == [mandatory_inputs |-> [c \in inputs |-> get_coin_confirmation(d, c)],
                      unspent_coins    |-> [c \in unspent |-> d.coins[c]],
                      outputs          |-> outputs,
                      fee_multiplier   |-> fee_multiplier,
                      sign_ok          |-> sign_ok,
                      nobalance        |-> nobalance \cup {NewCoin}]
             first == gen_transaction(call, 0)
             max_fee == IF first.ok
                        THEN base_fee(fee_multiplier, first.tx) * 3 + 100
                        ELSE MelTotal(call.unspent_coins, DOMAIN call.unspent_coins)
         IN  binary_search(call, 0, max_fee, Probe("High", FALSE, "nothing", Mel, NoTx))

-----------------------------------------------------------------------------
(* The preparer applied to a range of wallets *)

\* the coins a wallet of the preparer's specification may hold
PrepareCoins ==
    [c \in {CoinID(7, 0), CoinID(7, 1), CoinID(7, 2), CoinID(8, 0)} |->
        CASE c = CoinID(7, 0) -> CoinData(Me, 1, Mel)
          [] c = CoinID(7, 1) -> CoinData(Me, 900, Mel)
          [] c = CoinID(7, 2) -> CoinData(Me, 4, Sym)
          [] c = CoinID(8, 0) -> CoinData(Other, 50, Mel)]

\* a store that holds some of these coins, all confirmed, some of them spent
PrepareWallet(held, spent) ==
    [EmptyDb EXCEPT
        !.coins = [c \in held |-> PrepareCoins[c]],
        !.coin_confirmations = [c \in held |-> 1],
        !.spends = [c \in spent |-> 9]]

\* the argument lists prepare is called with
PrepareOutputs ==
    { <<>>,
      <<CoinData(Other, 10, Mel)>>,
      <<CoinData(Other, 2, Sym)>>,
      <<CoinData(Other, 4, Sym)>>,
      <<CoinData(Other, 5, Sym), CoinData(Other, 10, Mel)>>,
      <<CoinData(Other, 3, NewCoin), CoinData(Other, 899, Mel)>> }

PrepareInputs == {{}, {CoinID(7, 2)}, {CoinID(8, 0)}, {CoinID(7, 0), CoinID(7, 2)}}

FeeMultipliers == {0, 1000, 20000}

InitPrepare ==
    /\ \E held \in SUBSET DOMAIN PrepareCoins : \E spent \in SUBSET held :
          db = PrepareWallet(held, spent)
    /\ chain = <<>>
    /\ sync = IdleSync
    /\ last = NoOp
    /\ prep = NoPrepare
    /\ app = EmptyApp
    /\ pool = FullPool
    /\ wal = NoWal
    /\ net = NoNet

\* Wallet::prepare(inputs, outputs, fee_multiplier, sign, nobalance); it
\* reads the store and writes nothing, so one call per wallet shows every
\* result it can give
Prepare ==
    /\ ~prep.called
    /\ \E inputs \in PrepareInputs, outputs \in PrepareOutputs,
       fee_multiplier \in FeeMultipliers, sign_ok \in BOOLEAN,
       nobalance \in {{}, {Sym}} :
        LET r == prepare(db, inputs, outputs, fee_multiplier, sign_ok, nobalance)
        IN  /\ prep' = [called |-> TRUE, inputs |-> inputs, outputs |-> outputs,
                        fee_multiplier |-> fee_multiplier, sign_ok |-> sign_ok,
                        nobalance |-> nobalance \cup {NewCoin},
                        ok |-> r.ok, err |-> r.err, denom |-> r.denom, tx |-> r.tx]
            /\ UNCHANGED <<db, chain, sync, last, app, pool, wal, net>>

SpecPrepare == InitPrepare /\ [][Prepare]_vars

-----------------------------------------------------------------------------
(* The preparer called with mandatory inputs while the wallet follows the chain *)

\* the mandatory inputs of these calls: coins of transactions 1 and 2
MandatoryInputs ==
    {{CoinID(1, 0)}, {CoinID(1, 1)}, {CoinID(2, 0)}, {CoinID(1, 0), CoinID(2, 1)}}

\* Wallet::prepare called once, at any moment of the wallet's life, with
\* mandatory inputs and a signer that succeeds
PrepareMandatory ==
    /\ ~prep.called
    /\ \E inputs \in MandatoryInputs,
          outputs \in {<<>>, <<CoinData(Other, 2, Mel)>>} :
        LET r == prepare(db, inputs, outputs, 0, TRUE, {})
        IN  /\ prep' = [called |-> TRUE, inputs |-> inputs, outputs |-> outputs,
                        fee_multiplier |-> 0, sign_ok |-> TRUE,
                        nobalance |-> {NewCoin},
                        ok |-> r.ok, err |-> r.err, denom |-> r.denom, tx |-> r.tx]
            /\ UNCHANGED <<db, chain, sync, last, app, pool, wal, net>>

NextMandatory ==
    \/ LiveNodeMine
    \/ LiveCommitSent
    \/ SyncBegin
    \/ SyncRead
    \/ SyncWrite
    \/ SyncFail
    \/ PrepareMandatory

SpecMandatory == Init /\ [][NextMandatory]_vars

-----------------------------------------------------------------------------
(* The daemon's secrets: wallets are created, unlocked and locked *)

Names == {"alice", "bob"}

Keys == {5, 9}

Passwords == {"hello world", "hello worldr"}

Salts == {0, 1}

\* how far a name has come: never unlocked, unlocked, locked again after an
\* unlock, unlocked again after that
PhaseOf(a, name) == IF name \in DOMAIN a.phase THEN a.phase[name] ELSE "never"

\* create_wallet with a fresh or imported key and an optional password
AppCreateWallet ==
    \E name \in Names, key \in Keys, pwd \in Passwords \cup {NoPassword}, salt \in Salts :
        LET r == app_create_wallet(app, name, key, pwd, salt)
        IN  /\ pwd = NoPassword => salt = 0
            /\ app' = [r.app EXCEPT
                          !.made = IF r.ok THEN Put(@, name, [sk |-> key, pwd |-> pwd]) ELSE @,
                          !.result = [op |-> "create_wallet", name |-> name,
                                      ok |-> r.ok, pwd |-> pwd]]
            /\ UNCHANGED <<db, chain, sync, last, prep, pool, wal, net>>

\* unlock_wallet(name, password)
Unlock ==
    \E name \in Names, pwd \in Passwords \cup {NoPassword} :
        LET r == unlock(app, name, pwd)
        IN  /\ app' = [r.app EXCEPT
                          !.phase = IF ~r.ok THEN @
                                    ELSE Put(@, name,
                                             IF PhaseOf(app, name) \in {"never", "unlocked"}
                                             THEN "unlocked" ELSE "reunlocked"),
                          !.first = IF r.ok /\ name \notin DOMAIN @
                                    THEN Put(@, name, get_signer(r.app, name).sk) ELSE @,
                          !.result = [op |-> "unlock", name |-> name,
                                      ok |-> r.ok, pwd |-> pwd]]
            /\ UNCHANGED <<db, chain, sync, last, prep, pool, wal, net>>

\* lock_wallet(name)
Lock ==
    \E name \in Names :
        /\ app' = [lock(app, name) EXCEPT
                      !.phase = IF PhaseOf(app, name) = "never" THEN @
                                ELSE Put(@, name, "relocked"),
                      !.result = [op |-> "lock", name |-> name,
                                  ok |-> TRUE, pwd |-> NoPassword]]
        /\ UNCHANGED <<db, chain, sync, last, prep, pool, wal, net>>

NextSecrets ==
    \/ AppCreateWallet
    \/ Unlock
    \/ Lock

SpecSecrets == Init /\ [][NextSecrets]_vars

-----------------------------------------------------------------------------
(* The signer: transactions are signed on the threads of the executor *)

\* the transaction that is signed, before any signature
UnsignedTx == [body |-> 1, sigs |-> <<>>]

\* a signer signs input input_idx of the transaction on some thread; the
\* signer is an unlocked wallet's key or the signing_key of the request
SignTx ==
    \E thread \in DOMAIN app.CACHE, key \in Keys, input_idx \in {0, 1} :
        LET r == sign_tx(key, UnsignedTx, input_idx, app.CACHE[thread])
        IN  /\ app' = [app EXCEPT
                          !.CACHE[thread] = r.cache,
                          !.signed = IF <<key, input_idx>> \in DOMAIN @ THEN @
                                     ELSE Put(@, <<key, input_idx>>, r.txn),
                          !.signing = [called |-> TRUE, key |-> key, input_idx |-> input_idx,
                                       thread |-> thread, tx |-> r.txn]]
            /\ UNCHANGED <<db, chain, sync, last, prep, pool, wal, net>>

\* LruCache::new(500): enough other transactions signed on a thread push
\* an entry out of its cache
CacheEvict ==
    \E thread \in DOMAIN app.CACHE : \E h \in DOMAIN app.CACHE[thread] :
        /\ app' = [app EXCEPT !.CACHE[thread] = Drop(@, {h})]
        /\ UNCHANGED <<db, chain, sync, last, prep, pool, wal, net>>

NextSigner ==
    \/ SignTx
    \/ CacheEvict

SpecSigner == Init /\ [][NextSigner]_vars

-----------------------------------------------------------------------------
(* The transaction history read from a range of stores *)

\* the coins rows a store of this specification may hold: outputs of the
\* transactions 1 and 2 to the wallet, an output of 3 to someone else, and
\* the proposer reward of block 2 paid to the wallet
HistoryCoins ==
    [c \in {CoinID(1, 0), CoinID(1, 1), CoinID(2, 1), CoinID(3, 0), proposer_reward(2)} |->
        IF c = proposer_reward(2) THEN CoinData(Me, 1, Mel) ELSE StoredCoinData(c)]

\* a store holding some of these rows, each transaction's coins confirmed
\* at the height of its block or not yet confirmed
HistoryStore(held, heights) ==
    [EmptyDb EXCEPT
        !.coins = [c \in held |-> HistoryCoins[c]],
        !.coin_confirmations =
            [c \in {x \in held : x = proposer_reward(2) \/ heights[x[1]] > 0} |->
                IF c = proposer_reward(2) THEN 2 ELSE heights[c[1]]],
        !.pending_coins =
            [c \in {x \in held : x # proposer_reward(2) /\ heights[x[1]] = 0} |-> c[1]]]

InitHistory ==
    /\ \E held \in SUBSET DOMAIN HistoryCoins : \E heights \in [1..3 -> 0..2] :
          db = HistoryStore(held, heights)
    /\ chain = <<>>
    /\ sync = IdleSync
    /\ last = NoOp
    /\ prep = NoPrepare
    /\ app = EmptyApp
    /\ pool = FullPool
    /\ wal = NoWal
    /\ net = NoNet

\* Wallet::get_transaction_history; it reads the store and writes nothing,
\* so one call per store shows every list it can return
GetTransactionHistory ==
    /\ last.op = "none"
    /\ \E out \in get_transaction_history(db, Me) :
          last' = [op |-> "get_transaction_history", ok |-> TRUE, out |-> out]
    /\ UNCHANGED <<db, chain, sync, prep, app, pool, wal, net>>

SpecHistory == InitHistory /\ [][GetTransactionHistory]_vars

-----------------------------------------------------------------------------
(* The wallets registered in a store *)

\* the covenants wallets are made with: the standard covenant of a key
Covenants == {std_ed25519_pk_new(to_public(k)) : k \in Keys}

\* the wallet dumps restored at start-up: a covenant and the unspent coins
WalletDumps ==
    [my_covenant : Covenants,
     unspent_coins : {EmptyTable,
                      [c \in {CoinID(1, 0)} |->
                          [coin_data |-> StoredCoinData(c), height |-> 1]]}]

\* Database::create_wallet(name, covenant)
CreateWallet ==
    \E name \in Names, covenant \in Covenants :
        LET r == create_wallet(db, name, covenant)
        IN  /\ db' = r.db
            /\ last' = [op |-> "create_wallet", ok |-> r.ok,
                        name |-> name, covenant |-> covenant]
            /\ UNCHANGED <<chain, sync, prep, app, pool, wal, net>>

\* Database::restore_wallet_dump(name, dump)
RestoreWalletDump ==
    \E name \in Names, dump \in WalletDumps :
        /\ db' = restore_wallet_dump(db, name, dump)
        /\ last' = [op |-> "restore_wallet_dump", ok |-> TRUE,
                    name |-> name, covenant |-> dump.my_covenant]
        /\ UNCHANGED <<chain, sync, prep, app, pool, wal, net>>

NextWallets == CreateWallet \/ RestoreWalletDump

SpecWallets == Init /\ [][NextWallets]_vars

-----------------------------------------------------------------------------
(* The store under concurrent SQL transactions, statement by statement *)

\* the expiry the callers pass: an early one, so that a sync beyond it
\* evicts what is still pending
SqlExpiries == {e \in ExpiriesFor(2) : e < FarExpiry}

\* the node mines a block, up to the height of this specification
SqlNodeMine == Height < SqlMaxHeight /\ NodeMine

\* commit_sent opens its transaction and checks the inputs: the first select
\* fixes the snapshot the transaction reads from
SqlCommitBegin ==
    \E w \in Callers, txhash \in SqlTxHashes, expires \in SqlExpiries :
        /\ wal.txn[w].pc = "none"
        /\ TxCatalog[txhash].kind = "Faucet" =>
              /\ txhash \notin db.transactions
              /\ \A o \in Callers : wal.txn[o].tx # txhash
        /\ IF InputsAvailable(ReadView(db, wal), TxCatalog[txhash])
           THEN /\ wal' = [wal EXCEPT !.txn[w] =
                              [pc |-> "checked", tx |-> txhash, expires |-> expires,
                               snap |-> ReadView(db, wal)]]
                /\ last' = last
           ELSE /\ wal' = wal
                /\ last' = Returned("commit_sent", txhash, expires, FALSE, FALSE, 0, {}, {})
        /\ UNCHANGED <<db, chain, sync, prep, app, pool, net>>

\* the first insert of commit_sent: it takes the write lock, or fails as
\* busy (lock held, snapshot stale) or on a spends conflict, and the
\* transaction is dropped
SqlCommitWrite ==
    \E w \in Callers :
        LET t == wal.txn[w]
            r == CommitSentSpend(t.snap, t.tx)
        IN  /\ t.pc = "checked"
            /\ IF CanWrite(wal, t.snap, db) /\ r.ok
               THEN /\ wal' = [wal EXCEPT !.writer = w, !.work = r.db,
                                          !.txn[w].pc = "spent"]
                    /\ last' = last
               ELSE /\ wal' = [wal EXCEPT !.txn[w] = NoTxn]
                    /\ last' = Returned("commit_sent", t.tx, t.expires, FALSE, FALSE, 0, {}, {})
            /\ UNCHANGED <<db, chain, sync, prep, app, pool, net>>

\* the remaining inserts of commit_sent and its commit
SqlCommitFinish ==
    \E w \in Callers :
        LET t == wal.txn[w]
            r == CommitSentAdd(wal.work, t.tx, t.expires)
        IN  /\ t.pc = "spent"
            /\ db' = IF r.ok THEN r.db ELSE Rollback(db, r.db)
            /\ wal' = [wal EXCEPT !.writer = "none", !.work = EmptyDb, !.txn[w] = NoTxn]
            /\ last' = Returned("commit_sent", t.tx, t.expires, r.ok, r.ok, 0, {}, {})
            /\ UNCHANGED <<chain, sync, prep, app, pool, net>>

\* a statement of commit_sent fails in the database after the first writes
SqlCommitAbort ==
    \E w \in Callers :
        LET t == wal.txn[w]
        IN  /\ t.pc = "spent"
            /\ db' = Rollback(db, wal.work)
            /\ wal' = [wal EXCEPT !.writer = "none", !.work = EmptyDb, !.txn[w] = NoTxn]
            /\ last' = Returned("commit_sent", t.tx, t.expires, FALSE, FALSE, 0, {}, {})
            /\ UNCHANGED <<chain, sync, prep, app, pool, net>>

\* network_sync opens its write transaction and inserts coins and spenders
SqlSyncOpen ==
    /\ sync.pc = "collected"
    /\ CanWrite(wal, ReadView(db, wal), db)
    /\ wal' = [wal EXCEPT !.writer = "sync",
                          !.work = SyncWriteInserts(db, sync.coin_list, sync.new_spenders)]
    /\ sync' = [sync EXCEPT !.pc = "writing"]
    /\ UNCHANGED <<db, chain, last, prep, app, pool, net>>

\* the deletes of the write transaction, and txn.commit()
SqlSyncCommit ==
    /\ sync.pc = "writing"
    /\ db' = SyncWriteDeletes(wal.work, sync.tip, sync.coin_list)
    /\ wal' = [wal EXCEPT !.writer = "none", !.work = EmptyDb]
    /\ sync' = IdleSync
    /\ last' = SyncWritten(db, sync)
    /\ UNCHANGED <<chain, prep, app, pool, net>>

\* a statement of the write transaction fails: network_sync returns the
\* error (or panics) and the transaction is dropped; the record of this
\* failure keeps the height of the snapshot
SqlSyncAbort ==
    /\ sync.pc = "writing"
    /\ db' = Rollback(db, wal.work)
    /\ wal' = [wal EXCEPT !.writer = "none", !.work = EmptyDb]
    /\ sync' = IdleSync
    /\ last' = [Returned("sync", 0, 0, FALSE, FALSE, sync.tip, sync.expired0, {})
                    EXCEPT !.tip = sync.tip]
    /\ UNCHANGED <<chain, prep, app, pool, net>>

NextSql ==
    \/ SqlNodeMine
    \/ SqlCommitBegin
    \/ SqlCommitWrite
    \/ SqlCommitFinish
    \/ SqlCommitAbort
    \/ SyncBegin
    \/ SyncRead
    \/ SyncFail
    \/ SqlSyncOpen
    \/ SqlSyncCommit
    \/ SqlSyncAbort

SpecSql == Init /\ [][NextSql]_vars

-----------------------------------------------------------------------------
(* The connection pool under contending tasks *)

\* ConnPool::get_conn is called: the task starts to wait on recv()
GetConn ==
    \E t \in PoolTasks :
        /\ pool.tasks[t].pc = "free"
        /\ pool' = [pool EXCEPT !.tasks[t] =
                        [pc |-> "waiting", conn |-> 0, blocked |-> pool.channel = <<>>]]
        /\ UNCHANGED <<db, chain, sync, last, prep, app, wal, net>>

\* recv() completes with the connection at the head of the channel; with an
\* empty channel it stays pending
Recv ==
    \E t \in PoolTasks :
        /\ pool.tasks[t].pc = "waiting"
        /\ pool.channel # <<>>
        /\ pool' = [pool EXCEPT !.channel = Tail(@),
                                !.tasks[t].pc = "holding",
                                !.tasks[t].conn = Head(pool.channel)]
        /\ UNCHANGED <<db, chain, sync, last, prep, app, wal, net>>

\* PooledConnection::drop: the connection is sent back
DropConn ==
    \E t \in PoolTasks :
        /\ pool.tasks[t].pc = "holding"
        /\ pool' = [pool EXCEPT !.channel = try_send(@, pool.tasks[t].conn),
                                !.tasks[t] = [pc |-> "free", conn |-> 0, blocked |-> FALSE]]
        /\ UNCHANGED <<db, chain, sync, last, prep, app, wal, net>>

NextPool == GetConn \/ Recv \/ DropConn

SpecPool == Init /\ [][NextPool]_vars

-----------------------------------------------------------------------------
(* The store operations as users of the pool *)

\* the tasks that run store operations, one more than there are connections
OpTasks == 1..(PoolCapacity + 1)

\* a mutant: get_coin_confirmation keeps the connection of its first query
\* while it asks for the one of its second
OpStepsNested(op) ==
    CASE op = "commit_sent" -> <<"get_conn", "drop">>
      [] op = "get_coin_confirmation" -> <<"get_conn", "get_conn", "drop", "drop">>
      [] op = "network_sync" ->
            <<"get_conn", "drop", "get_conn", "drop", "get_conn", "drop">>

\* what an operation does with the pool, in order.  commit_sent, like every
\* operation with one get_conn, holds one connection until it returns;
\* get_coin_confirmation calls get_one_coin, which returns its connection
\* before the second get_conn; network_sync takes one for the pending
\* count, returns it at the end of the block, calls get_coin_mapping and
\* get_coin_confirmation, which take and return theirs, and takes the last
\* one for its write transaction
OpSteps(op) ==
    CASE op = "commit_sent" -> <<"get_conn", "drop">>
      [] op = "get_coin_confirmation" -> <<"get_conn", "drop", "get_conn", "drop">>
      [] op = "network_sync" ->
            <<"get_conn", "drop", "get_conn", "drop", "get_conn", "drop">>

OpNames == {"commit_sent", "get_coin_confirmation", "network_sync"}

NoOperation == [op |-> "none", step |-> 0, held |-> <<>>]

\* the pool after ConnPool::open, and no operation running
OpsPool ==
    [channel |-> OpenConnections(<<>>, 1),
     tasks   |-> [t \in OpTasks |-> NoOperation]]

\* the instruction a task is at
OpAt(pl, t) ==
    IF pl.tasks[t].op = "none" THEN "none"
    ELSE OpSteps(pl.tasks[t].op)[pl.tasks[t].step]

\* the task after its instruction: at the next one, or done
OpAdvance(task, held) ==
    IF task.step = Len(OpSteps(task.op)) THEN NoOperation
    ELSE [task EXCEPT !.step = @ + 1, !.held = held]

InitOps ==
    /\ db = EmptyDb
    /\ chain = <<>>
    /\ sync = IdleSync
    /\ last = NoOp
    /\ prep = NoPrepare
    /\ app = EmptyApp
    /\ pool = OpsPool
    /\ wal = NoWal
    /\ net = NoNet

\* a caller starts an operation; its first instruction is a get_conn (of
\* network_sync there is one at a time, as for the variable sync)
OpStart ==
    \E t \in OpTasks, op \in OpNames :
        /\ pool.tasks[t].op = "none"
        /\ op = "network_sync" => \A o \in OpTasks : pool.tasks[o].op # "network_sync"
        /\ pool' = [pool EXCEPT !.tasks[t] = [op |-> op, step |-> 1, held |-> <<>>]]
        /\ UNCHANGED <<db, chain, sync, last, prep, app, wal, net>>

\* self.pool.get_conn().await completes with the head of the channel
OpRecv(t) ==
    /\ OpAt(pool, t) = "get_conn"
    /\ pool.channel # <<>>
    /\ pool' = [pool EXCEPT
                    !.channel = Tail(@),
                    !.tasks[t] = OpAdvance(@, Append(@.held, Head(pool.channel)))]
    /\ UNCHANGED <<db, chain, sync, last, prep, app, wal, net>>

\* the handle taken last goes out of scope: PooledConnection::drop
OpDrop(t) ==
    /\ OpAt(pool, t) = "drop"
    /\ LET held == pool.tasks[t].held
       IN  pool' = [pool EXCEPT
                       !.channel = try_send(@, held[Len(held)]),
                       !.tasks[t] = OpAdvance(@, SubSeq(held, 1, Len(held) - 1))]
    /\ UNCHANGED <<db, chain, sync, last, prep, app, wal, net>>

\* an operation returns between two of its queries: a row that is not
\* there, the early return of network_sync, an error of the node
OpReturnEarly ==
    \E t \in OpTasks :
        /\ pool.tasks[t].op # "none"
        /\ pool.tasks[t].step > 1
        /\ pool.tasks[t].held = <<>>
        /\ pool' = [pool EXCEPT !.tasks[t] = NoOperation]
        /\ UNCHANGED <<db, chain, sync, last, prep, app, wal, net>>

NextOps ==
    \/ OpStart
    \/ \E t \in OpTasks : OpRecv(t)
    \/ \E t \in OpTasks : OpDrop(t)
    \/ OpReturnEarly

\* an operation that holds a connection runs its statements and returns it
\* (weak fairness of the drop); the channel wakes its waiting receivers in
\* turn, so a receiver that can take a connection again and again takes one
\* (strong fairness of the recv)
SpecOps ==
    /\ InitOps /\ [][NextOps]_vars
    /\ \A t \in OpTasks : WF_vars(OpDrop(t)) /\ SF_vars(OpRecv(t))

-----------------------------------------------------------------------------
(* send_tx: the transaction goes to the node, then into the store *)

\* snapshot.current_header().height + BlockHeight(10)
SendTimeout == 10

\* what the node's send_tx request can come back with
NodeAnswers == {"ok", "rejected", "network error"}

\* a mutant: only a failure of the network ends the handler
send_accepted_unless_network(answer) == answer # "network error"

\* snapshot.get_raw().send_tx(tx).await?: the handler goes on only when the
\* request went through and the node took the transaction
send_accepted(answer) == answer = "ok"

\* send_tx, up to the node's answer: we send it off ourselves; on an error
\* the handler returns it and does nothing else
SendTxSubmit ==
    /\ net.send.pc = "idle"
    /\ \E txhash \in SqlTxHashes, answer \in NodeAnswers :
        IF send_accepted(answer)
        THEN /\ net' = [net EXCEPT
                          !.send = [pc |-> "submitted", tx |-> txhash,
                                    height |-> Height, answer |-> answer],
                          !.accepted = @ \cup {txhash}]
             /\ UNCHANGED <<db, chain, sync, last, prep, app, pool, wal>>
        ELSE /\ net' = [net EXCEPT
                          !.send = [pc |-> "idle", tx |-> txhash,
                                    height |-> Height, answer |-> answer]]
             /\ last' = Returned("send_tx", txhash, 0, FALSE, FALSE, 0, {}, {})
             /\ UNCHANGED <<db, chain, sync, prep, app, pool, wal>>

\* send_tx, after the node took the transaction: we mark the TX as sent
SendTxCommit ==
    /\ net.send.pc = "submitted"
    /\ LET expires == net.send.height + SendTimeout
           r == commit_sent(db, net.send.tx, expires)
       IN  /\ db' = r.db
           /\ last' = Returned("commit_sent", net.send.tx, expires, r.ok, r.ok, 0, {}, {})
           /\ net' = [net EXCEPT !.send.pc = "idle"]
           /\ UNCHANGED <<chain, sync, prep, app, pool, wal>>

NextSend ==
    \/ LiveNodeMine
    \/ SendTxSubmit
    \/ SendTxCommit
    \/ SyncBegin
    \/ SyncRead
    \/ SyncWrite
    \/ SyncFail

SpecSend == Init /\ [][NextSend]_vars

-----------------------------------------------------------------------------
(* retransmit_pending: the pending transactions are sent to the node again *)

\* a mutant: every cached transaction is read
retransmit_rows_all_cached(d) == d.transactions

\* "select txblob from pending natural join transactions"
retransmit_rows(d) == {t \in DOMAIN d.pending : t \in d.transactions}

\* Database::retransmit_pending(snapshot): one detached task per row
RetransmitPending ==
    /\ net' = [net EXCEPT !.called = TRUE,
                          !.rows = retransmit_rows(db),
                          !.tasks = @ \cup retransmit_rows(db)]
    /\ UNCHANGED <<db, chain, sync, last, prep, app, pool, wal>>

\* a detached task sends its transaction; an error is logged, nothing else
RetransmitSend ==
    \E t \in net.tasks, ok \in BOOLEAN :
        /\ net' = [net EXCEPT !.tasks = @ \ {t}, !.resent = [tx |-> t, ok |-> ok]]
        /\ UNCHANGED <<db, chain, sync, last, prep, app, pool, wal>>

NextRetransmit ==
    \/ LiveNodeMine
    \/ LiveCommitSent
    \/ SyncBegin
    \/ SyncRead
    \/ SyncWrite
    \/ SyncFail
    \/ RetransmitPending
    \/ RetransmitSend

SpecRetransmit == Init /\ [][NextRetransmit]_vars

-----------------------------------------------------------------------------
(* Properties of commit_sent *)

\* C1: right after a successful commit_sent(tx, expires), tx is in pending
\* with that expiry and, when tx is Normal, each of its output coins has a
\* pending_coins row (naming tx) and a coins row.
C1_CommitSentRecordsPending ==
    (last.op = "commit_sent" /\ last.ok) =>
        /\ last.tx \in DOMAIN db.pending
        /\ db.pending[last.tx] = last.expires
        /\ TxCatalog[last.tx].kind = "Normal" =>
              \A c \in OutputCoinIDs(last.tx) :
                  /\ c \in DOMAIN db.pending_coins
                  /\ db.pending_coins[c] = last.tx
                  /\ c \in DOMAIN db.coins

C1_Witness ==
    /\ last.op = "commit_sent"
    /\ last.ok
    /\ TxCatalog[last.tx].kind = "Normal"
    /\ Len(TxCatalog[last.tx].outputs) = 2
    /\ last.expires = 1

\* C2: in every reachable state, a commit_sent that fails (at the input check
\* or at a key conflict) leaves every table as it was before the call.
C2_FailedCommitChangesNothing ==
    \A txhash \in TxHashes : \A expires \in ExpiriesFor(txhash) :
        LET r == commit_sent(db, txhash, expires)
        IN  ~r.ok => r.db = db

\* a commit_sent has just failed after some of its statements had executed
C2_Witness ==
    /\ last.op = "commit_sent"
    /\ ~last.ok
    /\ Len(TxCatalog[last.tx].inputs) = 2
    /\ LET body == CommitSentBody(db, last.tx, 1)
       IN  /\ ~body.ok
           /\ body.db.spends # db.spends
           /\ body.db.transactions # db.transactions

\* C3 as stated: a second commit_sent of the transaction just committed
\* completes without error and leaves the store as the first call left it.
C3_SecondCommitSucceeds ==
    (last.op = "commit_sent" /\ last.ok) =>
        LET r == commit_sent(db, last.tx, last.expires)
        IN  r.ok /\ r.db = db

\* C3 (amended): a second commit_sent of the transaction just committed
\* fails, and leaves the store as the first call left it.
C3_SecondCommitFailsUnchanged ==
    (last.op = "commit_sent" /\ last.ok) =>
        \A expires \in ExpiriesFor(last.tx) :
            LET r == commit_sent(db, last.tx, expires)
            IN  ~r.ok /\ r.db = db

\* a commit_sent of a transaction that is still pending has just failed
C3_Witness ==
    /\ last.op = "commit_sent"
    /\ ~last.ok
    /\ last.tx \in DOMAIN db.pending
    /\ OutputCoinIDs(last.tx) \subseteq DOMAIN db.pending_coins

-----------------------------------------------------------------------------
(* Properties of network_sync *)

\* C4: when a network_sync returns success, no transaction that was pending
\* with an expiry below the snapshot's height when the sync started is still
\* in pending, and none of its output coins is in pending_coins.
C4_ExpiredPendingEvicted ==
    (last.op = "sync" /\ last.ok) =>
        \A t \in last.expired0 :
            /\ ~is_pending(db, t)
            /\ \A c \in OutputCoinIDs(t) : c \notin DOMAIN db.pending_coins

C4_Witness ==
    /\ last.op = "sync"
    /\ last.ok
    /\ \E t \in last.expired0 :
          /\ TxCatalog[t].kind = "Normal"
          /\ t \notin MinedUpTo(Height)

\* C5: when the write phase of a sync evicts a pending transaction for its
\* expiry without having seen it confirmed, no spends row names that
\* transaction afterwards, it is not pending, and each of its input coins is
\* returned by get_coin_mapping(true, false).
C5_EvictionFreesInputs ==
    (last.op = "sync" /\ last.wrote) =>
        \A t \in last.evicted :
            /\ ~is_pending(db, t)
            /\ \A c \in DOMAIN db.spends : db.spends[c] # t
            /\ \A c \in Range(TxCatalog[t].inputs) :
                  c \in get_coin_mapping(db, Me, TRUE, FALSE)

C5_Witness ==
    /\ last.op = "sync"
    /\ last.wrote
    /\ \E t \in last.evicted : Len(TxCatalog[t].inputs) = 2

-----------------------------------------------------------------------------
(* Properties of get_coin_mapping *)

\* C9: in every reachable state, no coin returned by
\* get_coin_mapping(true, false) has a row in spends.
C9_SpendableCoinsUnspent ==
    \A c \in get_coin_mapping(db, Me, TRUE, FALSE) : c \notin DOMAIN db.spends

\* some coins are spendable while a confirmed coin of the wallet is spent
\* by a transaction that is still pending
C9_Witness ==
    /\ get_coin_mapping(db, Me, TRUE, FALSE) # {}
    /\ \E c \in DOMAIN db.spends :
          /\ c \in DOMAIN db.coin_confirmations
          /\ db.spends[c] \in DOMAIN db.pending

\* the row of the coin visibility matrix, stated on the tables
MatrixRow(c, confirmed, ignore_pending) ==
    /\ db.coins[c].covhash = Me
    /\ IF confirmed
       THEN c \in DOMAIN db.coin_confirmations
       ELSE c \in DOMAIN db.coin_confirmations \/ c \in DOMAIN db.pending_coins
    /\ IF ignore_pending
       THEN \A s \in DOMAIN db.spends : s = c => db.spends[s] \in DOMAIN db.pending
       ELSE \A s \in DOMAIN db.spends : s # c

\* C10: for each (confirmed, ignore_pending), get_coin_mapping returns
\* exactly the coins of the wallet's address that satisfy the matrix row.
C10_CoinVisibilityMatrix ==
    \A confirmed \in BOOLEAN, ignore_pending \in BOOLEAN :
        get_coin_mapping(db, Me, confirmed, ignore_pending)
            = {c \in DOMAIN db.coins : MatrixRow(c, confirmed, ignore_pending)}

\* the four results differ from one another, and the store also holds a
\* coin of another address and a coin whose spender is no longer pending
C10_Witness ==
    /\ get_coin_mapping(db, Me, TRUE, TRUE) # get_coin_mapping(db, Me, TRUE, FALSE)
    /\ get_coin_mapping(db, Me, FALSE, FALSE) # get_coin_mapping(db, Me, TRUE, FALSE)
    /\ get_coin_mapping(db, Me, FALSE, TRUE) # get_coin_mapping(db, Me, TRUE, TRUE)
    /\ get_coin_mapping(db, Me, FALSE, TRUE) # get_coin_mapping(db, Me, FALSE, FALSE)
    /\ \E c \in DOMAIN db.coins : db.coins[c].covhash = Other
    /\ \E c \in DOMAIN db.spends : db.spends[c] \notin DOMAIN db.pending

-----------------------------------------------------------------------------
(* Properties of prepare *)

RECURSIVE InputTotal(_, _, _, _)
InputTotal(d, inputs, dn, i) ==
    IF i > Len(inputs) THEN 0
    ELSE (IF d.coins[inputs[i]].denom = dn THEN d.coins[inputs[i]].value ELSE 0)
            + InputTotal(d, inputs, dn, i + 1)

DenomsOf(d, tx) ==
    {d.coins[tx.inputs[i]].denom : i \in DOMAIN tx.inputs}
        \cup {tx.outputs[i].denom : i \in DOMAIN tx.outputs} \cup {Mel}

\* C7, as stated: in a returned transaction, for every denomination not in
\* nobalance, the inputs (mandatory ones included) equal the outputs, plus
\* the fee for Mel
C7_ReturnedTransactionBalanced ==
    (prep.called /\ prep.ok) =>
        \A dn \in DenomsOf(db, prep.tx) \ prep.nobalance :
            InputTotal(db, prep.tx.inputs, dn, 1)
                = SumOutputs(prep.tx.outputs, dn, 1) + (IF dn = Mel THEN prep.tx.fee ELSE 0)

\* the value a set of coins of the store carries in one denomination
RECURSIVE HeldTotal(_, _, _)
HeldTotal(d, S, dn) ==
    IF S = {} THEN 0
    ELSE LET c == MinCoin(S)
         IN  (IF d.coins[c].denom = dn THEN d.coins[c].value ELSE 0)
                + HeldTotal(d, S \ {c}, dn)

\* the denominations of the requested outputs that the wallet's unspent coins
\* and the mandatory inputs cannot cover, whatever the fee
ShortDenoms ==
    LET unspent == get_coin_mapping(db, Me, TRUE, FALSE)
        usable  == unspent \cup prep.inputs
        have(dn) == HeldTotal(db, usable, dn)
    IN  {dn \in {prep.outputs[i].denom : i \in DOMAIN prep.outputs} \ prep.nobalance :
            have(dn) < SumOutputs(prep.outputs, dn, 1)}

\* C8, as stated: when the coins of a balanced denomination cannot cover the
\* requested outputs, prepare fails with an insufficient-funds error and
\* returns no transaction
C8_ShortfallReportedAsInsufficientFunds ==
    (/\ prep.called
     /\ \A c \in prep.inputs : get_coin_confirmation(db, c).some
     /\ ShortDenoms # {}) =>
        (~prep.ok /\ prep.err = "not enough money")

-----------------------------------------------------------------------------
(* Properties of the sync watermark and of confirmation *)

\* C11, as stated: after a network_sync on a snapshot at height h returns
\* success, sync_heights holds h for the wallet's address
C11_SyncRecordsHeight ==
    (last.op = "sync" /\ last.ok) =>
        /\ sync_heights(db, Me).some
        /\ sync_heights(db, Me).height = last.tip

\* every list get_transaction_history may return holds the transaction at
\* this height
ListedAt(d, t, h) ==
    HistoryHeights(d, Me, t) = {[some |-> TRUE, height |-> h]}

-----------------------------------------------------------------------------
(* Properties of transactions that are not Normal *)

\* C13: a commit_sent of a transaction whose kind is not Normal that succeeds
\* inserts no row into coins or pending_coins; it adds the transaction to
\* the cache, one spends row per input and the pending row, nothing else
C13_NonNormalCommitAddsNoCoins ==
    \A t \in TxHashes : \A e \in ExpiriesFor(t) :
        LET r == commit_sent(db, t, e)
        IN  (TxCatalog[t].kind # "Normal" /\ r.ok) =>
                /\ r.db.coins = db.coins
                /\ r.db.pending_coins = db.pending_coins
                /\ r.db.coin_confirmations = db.coin_confirmations
                /\ r.db.transactions = db.transactions \cup {t}
                /\ DOMAIN r.db.spends = DOMAIN db.spends \cup Range(TxCatalog[t].inputs)
                /\ \A c \in DOMAIN r.db.spends :
                      r.db.spends[c] = IF c \in DOMAIN db.spends THEN db.spends[c] ELSE t
                /\ r.db.pending = Put(db.pending, t, e)

C13_Witness ==
    /\ last.op = "commit_sent" /\ last.ok
    /\ TxCatalog[last.tx].kind = "Swap"
    /\ CoinID(5, 0) \in DOMAIN db.spends /\ db.spends[CoinID(5, 0)] = last.tx
    /\ is_pending(db, last.tx)

\* send_faucet has just committed its transaction and no sync has returned
\* since
FaucetJustSent ==
    /\ last.op = "commit_sent" /\ last.ok
    /\ TxCatalog[last.tx].kind = "Faucet"

\* C14, as stated: after send_faucet and before any sync, the status of the
\* faucet transaction has no confirmed height and dump_coins holds the
\* faucet's output as a pending coin
C14_FaucetOutputDumpedAsPending ==
    FaucetJustSent =>
        /\ get_tx(db, last.tx).ok
        /\ ~get_tx(db, last.tx).confirmed_height.some
        /\ CoinID(last.tx, 0) \in dump_coins(db)
        /\ HasPendingCoin(db, CoinID(last.tx, 0))

\* C14, amended: after send_faucet and before any sync, the status of the
\* faucet transaction has no confirmed height and the faucet's output is
\* not among dump_coins, nor recorded as a pending coin
C14_FaucetOutputNotDumped ==
    FaucetJustSent =>
        /\ get_tx(db, last.tx).ok
        /\ ~get_tx(db, last.tx).confirmed_height.some
        /\ CoinID(last.tx, 0) \notin dump_coins(db)
        /\ ~HasPendingCoin(db, CoinID(last.tx, 0))

C14_Witness ==
    /\ FaucetJustSent
    /\ is_pending(db, last.tx)
    /\ dump_coins(db) # {}

-----------------------------------------------------------------------------
(* Properties of secrets and signers *)

\* C15: get_signer(name) returns a signer exactly when an unlock of the
\* name has succeeded and no lock of it has happened since; and an unlock
\* succeeds exactly when a secret is stored under the name and it is
\* plaintext or was encrypted under the given password
C15_SignerIffUnlocked ==
    /\ \A name \in Names :
          get_signer(app, name).some <=> PhaseOf(app, name) \in {"unlocked", "reunlocked"}
    /\ app.result.op = "unlock" =>
          (app.result.ok <=>
              /\ app.result.name \in DOMAIN app.secrets
              /\ \/ app.secrets[app.result.name].kind = "Plaintext"
                 \/ /\ app.result.pwd # NoPassword
                    /\ app.result.pwd = app.made[app.result.name].pwd)

C15_Witness ==
    /\ app.result.op = "unlock" /\ ~app.result.ok
    /\ app.result.name \in DOMAIN app.secrets
    /\ \E other \in Names : get_signer(app, other).some
    /\ \E name \in Names : PhaseOf(app, name) = "relocked"

\* C16: decrypting a stored record with the password it was encrypted with
\* yields the key that was encrypted; with any other password, nothing
C16_DecryptInvertsEncrypt ==
    \A name \in DOMAIN app.secrets :
        app.secrets[name].kind = "PasswordEncrypted" =>
            /\ decrypt(app.secrets[name].enc, app.made[name].pwd)
                  = [some |-> TRUE, sk |-> app.made[name].sk]
            /\ \A pwd \in Passwords \ {app.made[name].pwd} :
                  ~decrypt(app.secrets[name].enc, pwd).some

C16_Witness ==
    \E name \in DOMAIN app.secrets :
        /\ app.secrets[name].kind = "PasswordEncrypted"
        /\ app.secrets[name].enc.argon2id_salt = 1
        /\ app.result.op = "unlock" /\ app.result.name = name /\ app.result.ok

\* C17: after unlock, lock, unlock of a name, the name is unlocked and its
\* signer signs as the signer of the first unlock did and has its covenant
C17_ReunlockSameSigner ==
    \A name \in Names :
        PhaseOf(app, name) = "reunlocked" =>
            LET signer == get_signer(app, name)
            IN  /\ signer.some
                /\ \A msg \in {1, 2} : sign(signer.sk, msg) = sign(app.first[name], msg)
                /\ std_ed25519_pk_new(to_public(signer.sk))
                      = std_ed25519_pk_new(to_public(app.first[name]))

C17_Witness ==
    \E name \in Names :
        /\ PhaseOf(app, name) = "reunlocked"
        /\ app.secrets[name].kind = "PasswordEncrypted"
        /\ app.result.op = "create_wallet" /\ app.result.name = name /\ ~app.result.ok

\* C18, as stated: the same signer signing the same input of the same
\* transaction again, in whatever state the cache is, yields the transaction
\* it yielded the first time, and signing leaves the no-sigs hash as it was
C18_SigningDeterministic ==
    app.signing.called =>
        /\ app.signing.tx = app.signed[<<app.signing.key, app.signing.input_idx>>]
        /\ hash_nosigs(app.signing.tx) = hash_nosigs(UnsignedTx)

-----------------------------------------------------------------------------
(* Properties of get_transaction_history *)

\* the list holds exactly one entry for every transaction that has a coin
\* of the wallet in the store, the proposer-reward coins left out
OneEntryPerTransaction(out) ==
    LET mine == {c \in DOMAIN db.coins :
                    /\ db.coins[c].covhash = Me
                    /\ \A h \in 0..MaxHeight : c # proposer_reward(h)}
    IN  /\ {out[i][1] : i \in DOMAIN out} = {c[1] : c \in mine}
        /\ \A i, j \in DOMAIN out : out[i][1] = out[j][1] => i = j

\* C19, as stated: one entry per transaction, in ascending order of
\* confirmation height, the unconfirmed entries last
C19_HistorySortedNoneLast ==
    last.op = "get_transaction_history" =>
        /\ OneEntryPerTransaction(last.out)
        /\ \A i, j \in DOMAIN last.out :
              i < j =>
                 /\ last.out[i][2].some /\ last.out[j][2].some
                        => last.out[i][2].height <= last.out[j][2].height
                 /\ ~last.out[i][2].some => ~last.out[j][2].some

\* C19, amended: one entry per transaction, in ascending order of
\* confirmation height, the unconfirmed entries first
C19_HistorySortedNoneFirst ==
    last.op = "get_transaction_history" =>
        /\ OneEntryPerTransaction(last.out)
        /\ \A i, j \in DOMAIN last.out :
              i < j =>
                 /\ last.out[i][2].some /\ last.out[j][2].some
                        => last.out[i][2].height <= last.out[j][2].height
                 /\ ~last.out[j][2].some => ~last.out[i][2].some

C19_Witness ==
    /\ last.op = "get_transaction_history"
    /\ Len(last.out) = 2
    /\ ~last.out[1][2].some /\ last.out[2][2].some
    /\ proposer_reward(2) \in DOMAIN db.coins
    /\ CoinID(1, 0) \in DOMAIN db.coins /\ CoinID(1, 1) \in DOMAIN db.coins

-----------------------------------------------------------------------------
(* Properties of create_wallet *)

\* C20: create_wallet on a registered name fails and leaves the row of that
\* name, address and covenant, as it was; on a new name it succeeds and the
\* stored address is the hash of the covenant
C20_CreateWalletStrict ==
    \A name \in Names, covenant \in Covenants :
        LET r == create_wallet(db, name, covenant)
        IN  IF name \in DOMAIN db.wallet_names
            THEN ~r.ok /\ r.db = db
            ELSE /\ r.ok
                 /\ r.db.wallet_names[name].covhash = CovenantHash(covenant)
                 /\ r.db.wallet_names[name].covenant = covenant
                 /\ \A other \in DOMAIN db.wallet_names :
                       r.db.wallet_names[other] = db.wallet_names[other]

\* create_wallet has just failed on a name registered with another covenant
C20_Witness ==
    /\ last.op = "create_wallet" /\ ~last.ok
    /\ last.name \in DOMAIN db.wallet_names
    /\ db.wallet_names[last.name].covenant # last.covenant
    /\ db.wallet_names[last.name].covhash = CovenantHash(db.wallet_names[last.name].covenant)

-----------------------------------------------------------------------------
(* Properties of the pending set *)

\* C24: two distinct pending transactions never share an input coin;
\* commit_sent succeeds only if every input has a coin_confirmations row and
\* no spends row, and when it fails it leaves the store unchanged
C24_PendingInputsDisjoint ==
    /\ \A t1, t2 \in DOMAIN db.pending :
          t1 # t2 => Range(TxCatalog[t1].inputs) \cap Range(TxCatalog[t2].inputs) = {}
    /\ \A t \in TxHashes : \A e \in ExpiriesFor(t) :
          LET r == commit_sent(db, t, e)
          IN  IF r.ok
              THEN \A c \in Range(TxCatalog[t].inputs) :
                      HasConfirmation(db, c) /\ ~HasSpend(db, c)
              ELSE r.db = db

\* a commit_sent has just failed on a transaction that shares an input with
\* a pending one, both inputs being confirmed coins of the store
C24_Witness ==
    /\ last.op = "commit_sent" /\ ~last.ok
    /\ InputsAvailable(db, TxCatalog[last.tx])
    /\ \E t \in DOMAIN db.pending :
          /\ t # last.tx
          /\ Range(TxCatalog[t].inputs) \cap Range(TxCatalog[last.tx].inputs) # {}

\* C25, as stated: a coin is in pending_coins iff it is an output of some
\* transaction that is in pending
C25_PendingCoinsIffPendingOutput ==
    \A t \in TxHashes : \A c \in OutputCoinIDs(t) :
        c \in DOMAIN db.pending_coins <=> t \in DOMAIN db.pending

\* C25, amended: a coin is in pending_coins iff it is an output of some
\* transaction of kind Normal that is in pending, and its row names that
\* transaction
C25_PendingCoinsIffNormalPendingOutput ==
    /\ \A t \in TxHashes : \A c \in OutputCoinIDs(t) :
          c \in DOMAIN db.pending_coins
              <=> (t \in DOMAIN db.pending /\ TxCatalog[t].kind = "Normal")
    /\ \A c \in DOMAIN db.pending_coins : db.pending_coins[c] = c[1]

\* a sync has removed a Normal transaction from pending, and with it the
\* pending_coins rows it had, while another transaction stays pending
C25_Witness ==
    /\ last.op = "sync" /\ last.wrote
    /\ \E t \in last.evicted \cup last.confirmed : TxCatalog[t].kind = "Normal"
    /\ DOMAIN db.pending_coins # {}

\* C26: a pending row is removed only by the write of a sync, and only when
\* the node's coin list for the wallet at the sync's snapshot holds a coin of
\* that transaction or its expiry is strictly below the snapshot's height;
\* any other pending row survives every step, with its expiry
C26_PendingRemovedOnlyBySync ==
    [][\A t \in DOMAIN db.pending :
          IF t \in DOMAIN db'.pending
          THEN db'.pending[t] = db.pending[t]
          ELSE /\ sync.pc = "collected" /\ sync'.pc = "idle"
               /\ last'.op = "sync" /\ last'.wrote
               /\ \/ \E c \in NodeCoinList(sync.tip, Me) : c[1] = t
                  \/ db.pending[t] < sync.tip]_vars

\* a sync write has removed an expired transaction and left pending one
\* whose expiry is not below the tip and which the node has not mined
C26_Witness ==
    /\ last.op = "sync" /\ last.wrote
    /\ last.evicted # {}
    /\ \E t \in DOMAIN db.pending :
          /\ db.pending[t] >= last.tip
          /\ t \notin MinedUpTo(Height)
          /\ Len(TxCatalog[t].inputs) > 0

-----------------------------------------------------------------------------
(* Properties of the spends table *)

\* C27: a spends row, once written, is never replaced by a row naming
\* another transaction; it disappears only in a sync write that removes its
\* transaction from pending for an expiry below the snapshot's height
C27_FirstSpenderKept ==
    [][\A c \in DOMAIN db.spends :
          IF c \in DOMAIN db'.spends
          THEN db'.spends[c] = db.spends[c]
          ELSE /\ sync.pc = "collected" /\ sync'.pc = "idle"
               /\ db.spends[c] \in DOMAIN db.pending
               /\ db.pending[db.spends[c]] < sync.tip
               /\ db.spends[c] \notin DOMAIN db'.pending]_vars

\* a sync write has found, for a coin whose recorded spender is a pending
\* transaction, that the node mined another spender, and the row still names
\* the first
C27_Witness ==
    /\ last.op = "sync" /\ last.wrote
    /\ \E c \in DOMAIN db.spends :
          /\ db.spends[c] \in DOMAIN db.pending
          /\ \E t \in MinedUpTo(last.tip) :
                t # db.spends[c] /\ c \in Range(TxCatalog[t].inputs)
          /\ \E o \in DOMAIN db.spends :
                db.spends[o] # db.spends[c] /\ o \in Range(TxCatalog[db.spends[o]].inputs)
                  /\ c \in Range(TxCatalog[db.spends[o]].inputs)

-----------------------------------------------------------------------------
(* Properties of network_sync against the node *)

\* C28: after a network_sync that wrote and returned success, every coin
\* returned by get_coin_mapping(true, false) is in the node's coin list for
\* the wallet at the synced snapshot
C28_SpendableCoinsKnownToNode ==
    (last.op = "sync" /\ last.wrote) =>
        get_coin_mapping(db, Me, TRUE, FALSE) \subseteq NodeCoinList(last.tip, Me)

-----------------------------------------------------------------------------
(* Properties of the connection pool *)

\* the connections checked out and the connections idle in the channel are
\* together all the connections of the pool, each exactly once
PoolConserved(pl) ==
    LET holders == {t \in PoolTasks : pl.tasks[t].pc = "holding"}
        idle    == Range(pl.channel)
    IN  /\ Cardinality(holders) + Len(pl.channel) = PoolCapacity
        /\ Cardinality(idle) = Len(pl.channel)
        /\ HeldConnections(pl) \cap idle = {}
        /\ \A t1, t2 \in holders : pl.tasks[t1].conn = pl.tasks[t2].conn => t1 = t2
        /\ HeldConnections(pl) \cup idle = 1..PoolCapacity

\* C23: at every moment the connections checked out plus the idle ones are
\* the whole pool and no connection has two holders; a task waiting in
\* get_conn never fails: it stays waiting, or gets the connection at the
\* head of the channel, which with an empty channel needs a holder's drop
C23_PoolConservesConnections ==
    /\ [](PoolConserved(pool))
    /\ [][\A t \in PoolTasks :
            pool.tasks[t].pc = "waiting" =>
                \/ pool'.tasks[t].pc = "waiting"
                \/ /\ pool'.tasks[t].pc = "holding"
                   /\ pool.channel # <<>>
                   /\ pool'.tasks[t].conn = Head(pool.channel)
                   /\ pool'.tasks[t].conn \notin HeldConnections(pool)]_vars

\* a task that found the channel empty now holds a connection, while
\* another task still waits on the empty channel
C23_Witness ==
    /\ \E t \in PoolTasks : pool.tasks[t].pc = "holding" /\ pool.tasks[t].blocked
    /\ \E t \in PoolTasks : pool.tasks[t].pc = "waiting"
    /\ pool.channel = <<>>

-----------------------------------------------------------------------------
(* Properties of the store under concurrent SQL transactions *)

\* C21: whatever the interleaving of the statements of commit_sent calls
\* and of the write of network_sync, what a reader sees changes only by one
\* whole write transaction applied to what it saw before, so every read and
\* the final state belong to a serial order of whole transactions; and no
\* reader sees spends rows of a commit_sent in progress without its pending
\* row
C21_WritesSerializable ==
    /\ [](\A w \in Callers : \A c \in DOMAIN ReadView(db, wal).spends :
            (wal.txn[w].pc = "spent" /\ ReadView(db, wal).spends[c] = wal.txn[w].tx)
                => is_pending(ReadView(db, wal), wal.txn[w].tx))
    /\ [][LET before == ReadView(db, wal)
              after  == ReadView(db', wal')
          IN  after # before =>
                \/ \E w \in Callers :
                      /\ wal.txn[w].pc = "spent"
                      /\ last'.op = "commit_sent" /\ last'.ok
                      /\ commit_sent(before, wal.txn[w].tx, wal.txn[w].expires).ok
                      /\ after = commit_sent(before, wal.txn[w].tx, wal.txn[w].expires).db
                \/ /\ sync.pc = "writing"
                   /\ last'.op = "sync" /\ last'.wrote
                   /\ after = SyncWriteTxn(before, sync.tip, sync.coin_list,
                                           sync.new_spenders)]_vars

\* a commit_sent has committed although the other caller, working on the
\* same snapshot, had checked the inputs of a competing transaction first;
\* that one is still open and can only fail
C21_Witness ==
    /\ last.op = "commit_sent" /\ last.ok
    /\ \E w \in Callers :
          /\ wal.txn[w].pc = "checked"
          /\ wal.txn[w].tx # last.tx
          /\ wal.txn[w].snap # db
          /\ ~is_pending(wal.txn[w].snap, last.tx)
          /\ is_pending(db, last.tx)

\* C22: a network_sync that fails or is cancelled before its write
\* transaction commits modifies no table: no step of a sync other than the
\* commit of its write changes the store or what readers see, and the lists
\* the write uses are fixed before the write transaction is opened
C22_FailedSyncWritesNothing ==
    [][/\ (sync' # sync /\ ~(sync.pc = "writing" /\ last'.op = "sync" /\ last'.wrote))
            => (db' = db /\ ReadView(db', wal') = ReadView(db, wal))
       /\ (sync.pc # "idle" /\ sync'.pc = "idle" /\ ~last'.ok)
            => (last'.op = "sync" /\ db' = db /\ wal'.writer # "sync")
       /\ sync.pc = "writing"
            => (sync' = sync \/ sync' = IdleSync)]_vars

\* a sync has failed inside its write transaction, after inserts that would
\* have changed the store, and the store holds none of them
C22_Witness ==
    /\ last.op = "sync" /\ ~last.ok
    /\ last.tip > 0
    /\ sync.pc = "idle"
    /\ wal.writer = "none"
    /\ DOMAIN db.coins = {}
    /\ NodeCoinList(last.tip, Me) # {}

-----------------------------------------------------------------------------
(* Properties of the fee of a prepared transaction *)

\* C30: every transaction prepare returns pays at least its own base fee
\* at the fee multiplier of the call
C30_ReturnedFeeCoversBaseFee ==
    (prep.called /\ prep.ok) =>
        prep.tx.fee >= base_fee(prep.fee_multiplier, prep.tx)

\* a returned transaction whose base fee is not zero and whose fee exceeds
\* it by less than half
C30_Witness ==
    /\ prep.called /\ prep.ok
    /\ base_fee(prep.fee_multiplier, prep.tx) > 1
    /\ 2 * prep.tx.fee < 3 * base_fee(prep.fee_multiplier, prep.tx)

-----------------------------------------------------------------------------
(* Convergence of network_sync *)

\* the spendable coins of the wallet are the node's coins for its address
Converged == get_coin_mapping(db, Me, TRUE, FALSE) = NodeCoinList(Height, Me)

\* C29, as stated: once the node's coin set has stopped changing, fair
\* repetition of network_sync makes the wallet's spendable coins equal to
\* the node's coin set at some point
C29_SyncConverges ==
    \A k \in 0..LiveMaxHeight : <>[](Height = k) => <>(Height = k /\ Converged)

\* C29, amended: if moreover no transaction is pending from some point on,
\* the wallet's spendable coins become the node's coin set and stay so
C29_SyncConvergesWhenNothingPending ==
    <>[](DOMAIN db.pending = {}) => <>[]Converged

\* a replaced coin: the store and the node hold as many coins, not the
\* same, and nothing is pending, so only the forced comparison can tell
C29_Witness ==
    /\ DOMAIN db.pending = {}
    /\ sync.pc = "idle"
    /\ ~Converged
    /\ Cardinality(get_coin_mapping(db, Me, TRUE, FALSE))
          = Cardinality(NodeCoinList(Height, Me))


-----------------------------------------------------------------------------
(* Properties of the change outputs and of the failures of prepare *)

\* the outputs prepare appended to the requested ones
ChangeOutputs == SubSeq(prep.tx.outputs, Len(prep.outputs) + 1, Len(prep.tx.outputs))

\* the denominations prepare balances: those of the requested outputs and
\* Mel, without the nobalance ones
BalancedDenoms ==
    ({prep.outputs[i].denom : i \in DOMAIN prep.outputs} \cup {Mel}) \ prep.nobalance

\* input_sum - output_sum of a returned transaction in one denomination
Difference(dn) ==
    InputTotal(db, prep.tx.inputs, dn, 1)
        - (SumOutputs(prep.outputs, dn, 1) + (IF dn = Mel THEN prep.tx.fee ELSE 0))

ChangeOf(dn) == SelectSeq(ChangeOutputs, LAMBDA o : o.denom = dn)

\* C31: in a returned transaction, for every balanced denomination, the change
\* goes to the wallet's own address and sums to the difference: two outputs
\* of floor(difference/2) and the rest when difference >= 2, one output when
\* difference = 1, one zero-valued output when difference = 0 and the
\* denomination is Mel, no change output when difference = 0 otherwise
C31_ChangeSumsToDifference ==
    (prep.called /\ prep.ok) =>
        \A dn \in BalancedDenoms :
            LET difference == Difference(dn)
                change == ChangeOf(dn)
            IN  /\ difference >= 0
                /\ \A i \in DOMAIN change : change[i].covhash = Me
                /\ SumOutputs(change, dn, 1) = difference
                /\ difference >= 2 =>
                      /\ Len(change) = 2
                      /\ change[1].value = difference \div 2
                      /\ change[2].value = difference - (difference \div 2)
                /\ difference = 1 => (Len(change) = 1 /\ change[1].value = 1)
                /\ (difference = 0 /\ dn = Mel) => (Len(change) = 1 /\ change[1].value = 0)
                /\ (difference = 0 /\ dn # Mel) => Len(change) = 0

\* a returned transaction with a zero-valued Mel change and two halves of Sym
C31_Witness ==
    /\ prep.called /\ prep.ok
    /\ Difference(Mel) = 0 /\ Len(ChangeOf(Mel)) = 1
    /\ Sym \in BalancedDenoms /\ Difference(Sym) >= 2 /\ Len(ChangeOf(Sym)) = 2

\* C32, as stated: prepare fails for a mandatory input that cannot be found
\* only when neither the wallet store nor the node knows one of the inputs
C32_MandatoryInputFoundInStoreOrNode ==
    [][(prep' # prep /\ ~prep'.ok /\ prep'.err = "mandatory input not found") =>
          \E c \in prep'.inputs :
              /\ ~get_coin_confirmation(db, c).some
              /\ ~NodeGetCoin(Height, c).some]_vars

\* the call prepare made: its arguments as gen_transaction sees them
PrepCall ==
    [mandatory_inputs |-> [c \in prep.inputs |-> get_coin_confirmation(db, c)],
     unspent_coins    |-> [c \in get_coin_mapping(db, Me, TRUE, FALSE) |-> db.coins[c]],
     outputs          |-> prep.outputs,
     fee_multiplier   |-> prep.fee_multiplier,
     sign_ok          |-> prep.sign_ok,
     nobalance        |-> prep.nobalance]

\* the candidates the fee search asked for, in the order it asked
RECURSIVE SearchTrail(_, _, _, _)
SearchTrail(call, low, high, trail) ==
    IF high <= low + 1 THEN trail
    ELSE LET mid == low + (high - low) \div 2
             r   == gen_transaction(call, mid)
         IN  IF r.dir = "Low"
             THEN SearchTrail(call, mid, high, Append(trail, r))
             ELSE SearchTrail(call, low, mid, Append(trail, r))

\* every candidate of the call: the one for fee 0 that sizes the search,
\* then those of the search
PrepTrail ==
    LET first == gen_transaction(PrepCall, 0)
        max_fee == IF first.ok
                   THEN base_fee(prep.fee_multiplier, first.tx) * 3 + 100
                   ELSE MelTotal(PrepCall.unspent_coins, DOMAIN PrepCall.unspent_coins)
    IN  SearchTrail(PrepCall, 0, max_fee, <<first>>)

\* C33, as stated: when signing fails the candidates are classified Low with
\* an error; if no candidate was ever signed, prepare returns no transaction
\* and its error is the last error the search has seen
C33_SignFailureReturnsLastError ==
    (/\ prep.called
     /\ \A c \in prep.inputs : get_coin_confirmation(db, c).some
     /\ \A i \in DOMAIN PrepTrail : ~PrepTrail[i].ok) =>
        /\ ~prep.ok
        /\ prep.err = PrepTrail[Len(PrepTrail)].err

-----------------------------------------------------------------------------
(* Properties of the signature cache *)

\* C34, as stated: whatever was signed before, sign_tx(tx, i) by a signer
\* puts at sigs[i] that signer's own signature over hash_nosigs(tx); a hit
\* in the cache never hands out the signature of another key
C34_SignatureIsSignersOwn ==
    app.signing.called =>
        app.signing.tx.sigs[app.signing.input_idx + 1]
            = sign(app.signing.key, hash_nosigs(UnsignedTx))

-----------------------------------------------------------------------------
(* Properties of the transaction status *)

\* C35, as stated: for a cached transaction get_tx answers Lost exactly when
\* no output of it has a confirmation in the store and it is not pending;
\* right after a sync that evicted a transaction by expiry that transaction
\* is Lost; a pending transaction and one with a confirmed output are never
\* Lost
C35_LostIffUnconfirmedAndNotPending ==
    /\ \A t \in db.transactions :
          LET unconfirmed == \A c \in OutputCoinIDs(t) : c \notin DOMAIN db.coin_confirmations
          IN  /\ (get_tx(db, t).err = "Lost") <=> (unconfirmed /\ t \notin DOMAIN db.pending)
              /\ (t \in DOMAIN db.pending \/ ~unconfirmed) => get_tx(db, t).ok
    /\ (last.op = "sync" /\ last.ok /\ last.wrote) =>
          \A t \in last.evicted : ~get_tx(db, t).ok /\ get_tx(db, t).err = "Lost"


-----------------------------------------------------------------------------
(* Properties of send_tx *)

\* C36: a pending row is written only by the commit_sent of a send_tx whose
\* submission the node has accepted, with expires = snapshot height + 10; a
\* send_tx whose submission fails leaves the store as it was, so every
\* pending and every spends row of a pending transaction belongs to a
\* transaction the node accepted
C36_PendingOnlyAfterNodeAccepted ==
    /\ [](/\ \A t \in DOMAIN db.pending : t \in net.accepted
          /\ \A c \in DOMAIN db.spends :
                db.spends[c] \in DOMAIN db.pending => db.spends[c] \in net.accepted)
    /\ [][/\ \A t \in DOMAIN db'.pending \ DOMAIN db.pending :
                /\ net.send.pc = "submitted" /\ net.send.tx = t
                /\ net.send.answer = "ok"
                /\ db'.pending[t] = net.send.height + SendTimeout
          /\ (net'.send # net.send /\ net'.send.answer # "ok") =>
                (db' = db /\ ~last'.ok /\ net'.send.pc = "idle")]_vars

\* one submission was accepted and its transaction is pending with the
\* expiry of its snapshot, a later submission of the other transaction failed
C36_Witness ==
    /\ net.send.pc = "idle" /\ net.send.answer # "ok" /\ net.send.answer # "none"
    /\ net.send.tx \notin DOMAIN db.pending
    /\ net.send.tx \notin Range(db.spends)
    /\ \E t \in DOMAIN db.pending : t \in net.accepted /\ db.pending[t] >= SendTimeout

-----------------------------------------------------------------------------
(* Properties of retransmit_pending *)

\* what every retransmit_pending call and every task it started does: the
\* call starts one task for each transaction that is in pending and in the
\* transaction cache at that moment, and for no other; a submission is only
\* made by such a task, and a failed one leaves the other tasks alone
RetransmitStep ==
    /\ (net'.called /\ (net'.rows # net.rows \/ ~net.called)) =>
          /\ net'.rows = DOMAIN db.pending \cap db.transactions
          /\ net'.tasks = net.tasks \cup net'.rows
          /\ \A t \in db.transactions \ DOMAIN db.pending :
                t \notin net'.tasks \ net.tasks
    /\ net'.tasks \ net.tasks \subseteq DOMAIN db.pending
    /\ net'.resent # net.resent =>
          /\ net'.resent.tx \in net.tasks
          /\ net'.tasks = net.tasks \ {net'.resent.tx}

\* C37, as stated: each call submits exactly the transactions that are in
\* pending and cached, a failed submission does not stop the others, and a
\* transaction that has left pending is never submitted to the node again
C37_NeverSubmittedAfterLeavingPending ==
    /\ [](net.called => net.rows \subseteq db.transactions)
    /\ [][/\ RetransmitStep
          /\ net'.resent # net.resent => net'.resent.tx \in DOMAIN db.pending]_vars

\* C37, amended: each call starts a submission for exactly the transactions
\* that are in pending and cached when it reads them, so a call made after a
\* transaction has left pending does not submit it; a failed submission does
\* not stop the others (a task started while its transaction was pending
\* may still send it after the row is gone)
C37_RetransmitsExactlyPendingAtCall ==
    /\ [](net.called => net.rows \subseteq db.transactions)
    /\ [][RetransmitStep]_vars

\* the last call left out a transaction that was evicted for its expiry and
\* read another one; the submission of one transaction has failed while the
\* task of the other is still to send
C37_Witness ==
    /\ net.called
    /\ \E t \in db.transactions : t \notin DOMAIN db.pending /\ t \notin net.rows
    /\ \E t \in net.rows : t \in net.tasks /\ t # net.resent.tx
    /\ net.resent.tx # 0 /\ ~net.resent.ok

-----------------------------------------------------------------------------
(* Properties of the coins table *)

\* C38: no step removes a row from coins or from coin_confirmations, and the
\* rows that are there keep their content: whatever commit_sent, a sync or an
\* eviction does, the set of known coin ids only grows
C38_CoinsNeverDeleted ==
    [][/\ \A c \in DOMAIN db.coins :
              c \in DOMAIN db'.coins /\ db'.coins[c] = db.coins[c]
       /\ \A c \in DOMAIN db.coin_confirmations :
              c \in DOMAIN db'.coin_confirmations
                 /\ db'.coin_confirmations[c] = db.coin_confirmations[c]]_vars

\* a sync has evicted a transaction: its pending_coins rows are gone, the
\* coins rows of its outputs are still there, without a confirmation
C38_Witness ==
    /\ last.op = "sync" /\ last.ok /\ last.wrote
    /\ \E t \in last.evicted : \E c \in OutputCoinIDs(t) :
          /\ c \in DOMAIN db.coins
          /\ c \notin DOMAIN db.pending_coins
          /\ c \notin DOMAIN db.coin_confirmations

-----------------------------------------------------------------------------
(* Properties of the store operations as users of the pool *)

\* C39: no operation holds more than one connection, so none asks for a
\* second one while it holds one; and every get_conn that waits, also on an
\* empty channel with more callers than connections, gets a connection in
\* the end
C39_NoNestedAcquireNoDeadlock ==
    /\ [](\A t \in OpTasks :
            /\ Len(pool.tasks[t].held) <= 1
            /\ OpAt(pool, t) = "get_conn" => pool.tasks[t].held = <<>>)
    /\ \A t \in OpTasks :
            (OpAt(pool, t) = "get_conn") ~> (OpAt(pool, t) # "get_conn")

\* every connection is held and a further caller waits on the empty channel
C39_Witness ==
    /\ pool.channel = <<>>
    /\ Cardinality({t \in OpTasks : pool.tasks[t].held # <<>>}) = PoolCapacity
    /\ \E t \in OpTasks : OpAt(pool, t) = "get_conn"

-----------------------------------------------------------------------------
(* Properties of a failed unlock *)

\* C40: an unlock that fails leaves the map of unlocked signers as it was: a
\* locked wallet gets no signer, an unlocked wallet keeps the signer it had
C40_FailedUnlockKeepsSigners ==
    [][(app'.result.op = "unlock" /\ ~app'.result.ok) =>
            /\ app'.unlocked_signers = app.unlocked_signers
            /\ \A name \in Names : get_signer(app', name) = get_signer(app, name)]_vars

\* an unlock with a wrong password has failed on a wallet that is unlocked,
\* while another wallet is locked
C40_Witness ==
    /\ app.result.op = "unlock" /\ ~app.result.ok
    /\ app.result.pwd # NoPassword
    /\ app.result.name \in DOMAIN app.secrets
    /\ app.secrets[app.result.name].kind = "PasswordEncrypted"
    /\ get_signer(app, app.result.name).some
    /\ \E other \in DOMAIN app.secrets : ~get_signer(app, other).some
=============================================================================
